---- MODULE Spec2Model ----
(***************************************************************************)
(* Verification model of skydive's capture-and-correlation plane:          *)
(*   - sflow/agent.go          SFlowAgent and SFlowAgentAllocator          *)
(*   - topology/graph/alert.go AlertManager (rule map, KV watcher, eval)   *)
(***************************************************************************)
EXTENDS Integers, Sequences, FiniteSets, TLC

(***************************************************************************)
(* Bounds of the model.                                                    *)
(***************************************************************************)
NumUUIDs == 3
MaxAgents == 3
NumRuleIDs == 2
MaxPending == 1
MaxNodes == 2
MaxGraphEvents == 3
NumIndexes == 2
ChanCapacity == 2
NumFlowKeys == 2
MaxRecords == 3
NumListeners == 2
NumCallers == 2
MaxRangeCalls == 3
MaxTime == 3

(***************************************************************************)
(* Program constants.                                                      *)
(***************************************************************************)
DefaultMinPort == 6345
DefaultMaxPort == 6355

VARIABLES
    cfg,        \* sflow.port_min / sflow.port_max as configured (0 = unset)
    allocated,  \* SFlowAgentAllocator.allocated : port -> agent
    agent,      \* every SFlowAgent ever created, with the state of its task
    op,         \* the allocator call that holds the allocator lock, if any
    ret,        \* what the last Alloc returned (Release returns nothing)
    store,      \* KV store: key -> value, for the value nodes below /alert
    events,     \* events of the KV store the watcher has not consumed yet
    alerts,     \* AlertManager.alerts : UUID -> AlertTest
    watcher,    \* the watcher goroutine: "running", "ended" (watcher.Next
                \* failed) or "panicked" (the process died in SetAlertTest)
    wlast,      \* the last event the watcher consumed
    nodes,      \* Graph: node id -> metadata
    emitted,    \* per rule uuid, the number of AlertMessages emitted so far
    msgs,       \* the AlertMessages emitted by the last EvalNodes, in order
    gcount,     \* number of graph notifications so far
    eventListeners, \* AlertManager.eventListeners: the registered listeners
    registered, \* the registered listeners in the order of their registration
    delivered,  \* per message of the last EvalNodes, the listeners called
    scopes,     \* per candidate node of the last EvalNodes, the world built
    graphLock,  \* the write lock of the graph: "free" or "held"
    resync,     \* position of triggerResync called by OnConnected
    ranging,    \* EvalNodes inside its range over a.eventListeners
    sflowRows,  \* switch: the rows of table sFlow
    bridgeSFlow,\* switch: column sflow of each Bridge row (0 = empty set)
    regCalls,   \* per task, its call of the probe handler in progress
    pret,       \* what the last call of the probe handler returned
    cache,      \* cache-based handler: interface index -> probe path
    cacheUpdaterChan, \* the buffered channel of lookup requests
    caller,     \* the task calling GetProbePath (the agent task)
    gpret,      \* what the last GetProbePath returned
    updater,    \* the cacheUpdater task: position, index received, path found
    handlerRunning, \* o.running of the cache-based handler
    hstop,      \* position of the caller of the handler's Stop()
    paths,      \* Graph: what lookupForProbePath finds for each index
    flowTable,  \* one agent's flow table: flow key -> record
    clock,      \* the time
    expireTicker,  \* tick waiting on GetExpireTicker(): its timestamp, 0 = none
    updatedTicker, \* tick waiting on GetUpdatedTicker(): its timestamp, 0 = none
    flusher,    \* the task calling Flush(): idle, sending or waiting
    stopper,    \* the task calling Stop(): idle, waiting or returned
    loopRunning,\* sfa.running of the agent whose loop is modelled
    loopPc,     \* position of that agent's task in start()
    expired,    \* per record instance, how often the expire callback got it
    updated,    \* the record instances the updated callback is running on,
                \* inside Updated(now)
    created,    \* number of record instances created so far
    inTable     \* the table operations in progress, each with its task

allocVars == <<cfg, allocated, agent, op, ret>>

watchVars == <<store, events, alerts, watcher, wlast>>

evalVars == <<nodes, emitted, msgs, gcount, eventListeners, registered,
              delivered, scopes, graphLock, resync, ranging>>

alertVars == <<watchVars, evalVars>>

probeVars == <<sflowRows, bridgeSFlow, pret, regCalls>>

cacheVars == <<cache, cacheUpdaterChan, caller, gpret, updater, paths,
               handlerRunning, hstop>>

loopVars == <<flowTable, clock, expireTicker, updatedTicker, flusher, stopper,
              loopRunning, loopPc, expired, updated, created, inTable>>

\* everything but the allocator and its agents
restOfAlloc == <<alertVars, probeVars, cacheVars, loopVars>>

\* everything but the alert engine
restOfAlert == <<allocVars, probeVars, cacheVars, loopVars>>

\* everything but the allocator and the switch
restOfProbe == <<alertVars, cacheVars, loopVars>>

\* everything but the cache-based handler
restOfCache == <<allocVars, alertVars, probeVars, loopVars>>

\* everything but the main loop of an agent and its flow table
restOfLoop == <<allocVars, alertVars, probeVars, cacheVars>>

vars == <<cfg, allocated, agent, op, ret,
          store, events, alerts, watcher, wlast, nodes, emitted, msgs, gcount,
          eventListeners, registered, delivered, scopes, graphLock, resync,
          ranging,
          sflowRows, bridgeSFlow, pret, regCalls,
          cache, cacheUpdaterChan, caller, gpret, updater, paths,
          handlerRunning, hstop,
          flowTable, clock, expireTicker, updatedTicker, flusher, stopper,
          loopRunning, loopPc, expired, updated, created, inTable>>

BridgeUUIDs == {"b" \o ToString(i) : i \in 1..NumUUIDs}

\* configured (port_min, port_max) pairs; 0 stands for an unset key
CfgPairs == {<<0, 6346>>, <<6355, 0>>}

\* configured pairs whose range is empty after the defaults: port_min one
\* above port_max, further above it, and above the default port_max
CfgEmptyRanges == {<<6347, 6346>>, <<6350, 6346>>, <<6360, 0>>}

----------------------------------------------------------------------------
(***************************************************************************)
(* SFlowAgentAllocator.Alloc: defaults and port scan                       *)
(***************************************************************************)
MinPort(c) == IF c.min = 0 THEN DefaultMinPort ELSE c.min

MaxPort(c) == IF c.max = 0 THEN DefaultMaxPort ELSE c.max

\* the scan with its bound one too far: i != max+2
RECURSIVE ScanPortsPastMax(_, _, _)
ScanPortsPastMax(i, max, used) ==
    IF i = max + 2 THEN 0
    ELSE IF i \notin used THEN i
    ELSE ScanPortsPastMax(i + 1, max, used)

\* the scan handing out the last port of the range again when none is free
RECURSIVE ScanPortsReuseLast(_, _, _)
ScanPortsReuseLast(i, max, used) ==
    IF i = max + 1 THEN max
    ELSE IF i \notin used THEN i
    ELSE ScanPortsReuseLast(i + 1, max, used)

\* for i := min; i != max+1; i++ { if _, ok := a.allocated[i]; !ok {...} }
\* 0 stands for "loop ended without a free port".
RECURSIVE ScanPorts(_, _, _)
ScanPorts(i, max, used) ==
    IF i = max + 1 THEN 0
    ELSE IF i \notin used THEN i
    ELSE ScanPorts(i + 1, max, used)

\* the scan taking the last free port of the range instead of the first
FirstFreePortDescending(c, used) ==
    LET free == {p \in MinPort(c)..MaxPort(c) : p \notin used}
    IN IF free = {} THEN 0 ELSE CHOOSE p \in free : \A q \in free : q <= p

FirstFreePort(c, used) == ScanPorts(MinPort(c), MaxPort(c), used)

\* the lookup of an existing agent never finding one
PortsOfUUIDNone(alloc, ag, uuid) == {}

\* for _, agent := range a.allocated { if uuid == agent.UUID {...} }
PortsOfUUID(alloc, ag, uuid) == {p \in DOMAIN alloc : ag[alloc[p]].UUID = uuid}

\* NewSFlowAgent + the state of the task that Start() is about to spawn
NewSFlowAgent(uuid, port) ==
    [UUID |-> uuid, Port |-> port,
     running |-> "nil",      \* atomic.Value, nothing stored yet
     wg |-> 0,               \* sync.WaitGroup counter
     conn |-> FALSE,         \* UDP socket open
     pc |-> "spawned",       \* position of the task running start()
     stopRet |-> FALSE]      \* a call of Stop() on this agent has returned

Idle == [name |-> "idle"]

\* An agent whose task has ended and that the allocator no longer references is
\* unreachable (garbage); all such agents are represented by one record.
Gone == [UUID |-> "", Port |-> 0, running |-> "false", wg |-> 0, conn |-> FALSE,
         pc |-> "done", stopRet |-> TRUE]

\* Once deleted from the map an agent is found by no lookup any more: its UUID
\* is no longer read, only its task goes on.
Collect(ag, alloc) ==
    [a \in DOMAIN ag |->
        IF \E p \in DOMAIN alloc : alloc[p] = a THEN ag[a]
        ELSE IF ag[a].pc \in {"done", "bindfail"} THEN Gone
        ELSE [ag[a] EXCEPT !.UUID = ""]]

\* body of Alloc under the lock: the outcomes it can have on a given map
AllocResults(c, alloc, ag, uuid) ==
    LET existing == PortsOfUUID(alloc, ag, uuid)
        port == FirstFreePort(c, DOMAIN alloc)
    IN IF existing # {}
       THEN {[allocated |-> alloc, agent |-> ag,
              ret |-> [agent |-> alloc[p], err |-> "AgentAlreadyAllocated"]] :
                p \in existing}
       ELSE IF port # 0
       THEN {[allocated |-> (port :> (Len(ag) + 1)) @@ alloc,
              agent |-> Append(ag, NewSFlowAgent(uuid, port)),
              ret |-> [agent |-> Len(ag) + 1, err |-> "nil"]]}
       ELSE {[allocated |-> alloc, agent |-> ag,
              ret |-> [agent |-> 0, err |-> "sflow port exhausted"]]}

Alloc(uuid) ==
    /\ op = Idle
    /\ \E r \in AllocResults(cfg, allocated, agent, uuid) :
          /\ Len(r.agent) <= MaxAgents
          /\ allocated' = r.allocated
          /\ agent' = r.agent
          /\ ret' = r.ret
    /\ UNCHANGED <<cfg, op, restOfAlloc>>

----------------------------------------------------------------------------
(***************************************************************************)
(* SFlowAgent.start: the task spawned by Start()                           *)
(***************************************************************************)
PortBusy(a) == \E b \in DOMAIN agent :
                  b # a /\ agent[b].conn /\ agent[b].Port = agent[a].Port

\* net.ListenUDP; on error start() returns it (to nobody: `go sfa.start()`).
\* On success: defer conn.Close(); sfa.wg.Add(1); defer sfa.wg.Done()
AgentListen(a) ==
    /\ agent[a].pc = "spawned"
    /\ \E ok \in IF PortBusy(a) THEN {FALSE} ELSE BOOLEAN :
         agent' = Collect([agent EXCEPT ![a] =
                     IF ok THEN [@ EXCEPT !.conn = TRUE, !.wg = 1, !.pc = "bound"]
                     ELSE [@ EXCEPT !.pc = "bindfail"]], allocated)
    /\ UNCHANGED <<cfg, allocated, op, ret, restOfAlloc>>

\* sfa.running.Store(true); NewTable; RegisterExpire; RegisterUpdated
AgentRun(a) ==
    /\ agent[a].pc = "bound"
    /\ agent' = [agent EXCEPT ![a] = [@ EXCEPT !.running = "true", !.pc = "loop"]]
    /\ UNCHANGED <<cfg, allocated, op, ret, restOfAlloc>>

\* for sfa.running.Load() == true { select {...} }: a pass through the loop body
\* changes nothing the allocator can see; once the flag is false the loop ends
\* and the deferred calls run in reverse order of their defer statements:
\* flowTable.UnregisterAll(), then wg.Done() ...
AgentExit(a) ==
    /\ agent[a].pc = "loop"
    /\ agent[a].running # "true"
    /\ agent' = [agent EXCEPT ![a] = [@ EXCEPT !.wg = 0, !.pc = "closing"]]
    /\ UNCHANGED <<cfg, allocated, op, ret, restOfAlloc>>

\* ... and last conn.Close(), deferred first
AgentClose(a) ==
    /\ agent[a].pc = "closing"
    /\ agent' = Collect([agent EXCEPT ![a] = [@ EXCEPT !.conn = FALSE, !.pc = "done"]],
                        allocated)
    /\ UNCHANGED <<cfg, allocated, op, ret, restOfAlloc>>

----------------------------------------------------------------------------
(***************************************************************************)
(* SFlowAgent.Stop, SFlowAgentAllocator.Release / ReleaseAll               *)
(***************************************************************************)
\* if sfa.running.Load() == true { sfa.running.Store(false); sfa.wg.Wait() }
StopMustWait(ag) == ag.running = "true"

Without(alloc, p) == [q \in DOMAIN alloc \ {p} |-> alloc[q]]

\* a.Lock(); the range loop will visit the entries whose agent matches
Release(uuid) ==
    /\ op = Idle
    /\ op' = [name |-> "Release",
              todo |-> PortsOfUUID(allocated, agent, uuid), wait |-> 0, n |-> 0]
    /\ UNCHANGED <<cfg, allocated, agent, ret, restOfAlloc>>

\* a ReleaseAll whose loop visits one entry only
ReleaseAllOneEntry ==
    /\ op = Idle
    /\ op' = [name |-> "ReleaseAll",
              todo |-> IF allocated = <<>> THEN {}
                       ELSE {CHOOSE p \in DOMAIN allocated : TRUE},
              wait |-> 0, n |-> 0]
    /\ UNCHANGED <<cfg, allocated, agent, ret, restOfAlloc>>

\* a.Lock(); the range loop will visit every entry. n counts the entries the
\* loop has deleted so far.
ReleaseAll ==
    /\ op = Idle
    /\ op' = [name |-> "ReleaseAll",
              todo |-> DOMAIN allocated, wait |-> 0, n |-> 0]
    /\ UNCHANGED <<cfg, allocated, agent, ret, restOfAlloc>>

\* loop body: agent.Stop() up to wg.Wait(), or all of it when it does not wait
ReleaseVisit ==
    /\ op.name \in {"Release", "ReleaseAll"}
    /\ op.wait = 0
    /\ \E p \in op.todo :
         LET a == allocated[p] IN
         IF StopMustWait(agent[a])
         THEN /\ agent' = [agent EXCEPT ![a] = [@ EXCEPT !.running = "false"]]
              /\ op' = [op EXCEPT !.wait = p]
              /\ UNCHANGED allocated
         ELSE /\ agent' = Collect([agent EXCEPT ![a] = [@ EXCEPT !.stopRet = TRUE]],
                                      Without(allocated, p))
              /\ allocated' = Without(allocated, p)
              /\ op' = [op EXCEPT !.todo = @ \ {p}, !.n = @ + 1]
    /\ UNCHANGED <<cfg, ret, restOfAlloc>>

\* wg.Wait() returns, Stop() returns, delete(a.allocated, i)
ReleaseJoin ==
    /\ op.name \in {"Release", "ReleaseAll"}
    /\ op.wait # 0
    /\ LET p == op.wait
           a == allocated[p]
       IN /\ agent[a].wg = 0
          /\ agent' = Collect([agent EXCEPT ![a] = [@ EXCEPT !.stopRet = TRUE]],
                               Without(allocated, p))
          /\ allocated' = Without(allocated, p)
          /\ op' = [op EXCEPT !.todo = @ \ {p}, !.wait = 0, !.n = @ + 1]
    /\ UNCHANGED <<cfg, ret, restOfAlloc>>

\* loop over, deferred a.Unlock()
ReleaseReturn ==
    /\ op.name \in {"Release", "ReleaseAll"}
    /\ op.wait = 0
    /\ op.todo = {}
    /\ op' = Idle
    /\ UNCHANGED <<cfg, allocated, agent, ret, restOfAlloc>>

----------------------------------------------------------------------------
(***************************************************************************)
(* The flow table of an agent and the main loop of SFlowAgent.start        *)
(***************************************************************************)
FlowKeys == 1..NumFlowKeys

\* agent.flowtable_expire, in clock units
FlowtableExpire == 1

\* insertion of a decoded sample: an existing record is updated, otherwise a
\* new record instance is created
TableInsert(ft, k, now, inst) ==
    IF k \in DOMAIN ft
    THEN [ft EXCEPT ![k] = [@ EXCEPT !.last = now, !.touched = TRUE]]
    ELSE (k :> [inst |-> inst, last |-> now, touched |-> TRUE]) @@ ft

\* Table.Expire(now): the records last seen before now - interval go to the
\* expire callback and are removed
Expire(ft, now) ==
    LET old == {k \in DOMAIN ft : ft[k].last < now - FlowtableExpire}
    IN [batch |-> {ft[k].inst : k \in old},
        table |-> [k \in DOMAIN ft \ old |-> ft[k]]]

\* Table.Updated(now): the records touched since the last updated tick go to
\* the updated callback and stay
Updated(ft, now) ==
    [batch |-> {ft[k].inst : k \in {x \in DOMAIN ft : ft[x].touched}},
     table |-> [k \in DOMAIN ft |-> [ft[k] EXCEPT !.touched = FALSE]]]

\* an ExpireNow that hands every record to the callback and leaves the table
ExpireNowKeepsTable(ft) ==
    [batch |-> {ft[k].inst : k \in DOMAIN ft}, table |-> ft]

\* Table.ExpireNow(): every record goes to the expire callback, the table is
\* emptied
ExpireNow(ft) ==
    [batch |-> {ft[k].inst : k \in DOMAIN ft}, table |-> <<>>]

\* Table.UnregisterAll(): the tickers are stopped. Whether the records still
\* in the table go through the expire callback is not said in one way: the
\* operation is described as stopping the tickers, the release of an agent
\* as flushing the table; flush chooses between the two
UnregisterAll(ft, flush) ==
    IF flush THEN ExpireNow(ft) ELSE [batch |-> {}, table |-> ft]

\* a table that runs its callbacks on a task of its own
CallbackOnOwnTask(task) == "table"

\* the task a callback of the table runs on: the task that called the
\* operation
CallbackTask(task) == task

\* the expire callback (asyncFlowPipeline) invoked with a batch
ExpireCallback(exp, batch) ==
    [i \in DOMAIN exp |-> IF i \in batch THEN exp[i] + 1 ELSE exp[i]]

\* the updated callback, asyncFlowPipeline as well (RegisterUpdated), invoked
\* with a batch: the records it is handed
UpdatedCallback(batch) == batch

\* the positions of the agent task inside an operation of the table
InTablePcs == {"Expire", "Updated", "ExpireNow", "feedFlowTable"}

LoopAlive == loopPc \in {"top", "select", "ack", "ReadFromUDP"} \cup InTablePcs

\* time passes
ClockTick ==
    /\ LoopAlive
    /\ clock < MaxTime
    /\ clock' = clock + 1
    /\ UNCHANGED <<flowTable, expireTicker, updatedTicker, flusher, stopper,
                   loopRunning, loopPc, expired, updated, created, inTable, restOfLoop>>

\* the expire ticker fires; a tick is dropped while one is still waiting
ExpireTickFires ==
    /\ LoopAlive
    /\ expireTicker = 0
    /\ expireTicker' = clock
    /\ UNCHANGED <<flowTable, clock, updatedTicker, flusher, stopper,
                   loopRunning, loopPc, expired, updated, created, inTable, restOfLoop>>

UpdatedTickFires ==
    /\ LoopAlive
    /\ updatedTicker = 0
    /\ updatedTicker' = clock
    /\ UNCHANGED <<flowTable, clock, expireTicker, flusher, stopper,
                   loopRunning, loopPc, expired, updated, created, inTable, restOfLoop>>

\* Flush(): sfa.flush <- true, then <-sfa.flushDone; it can be called in
\* every state of the agent
FlushCall ==
    /\ flusher = "idle"
    /\ flusher' = "sending"
    /\ UNCHANGED <<flowTable, clock, expireTicker, updatedTicker, stopper,
                   loopRunning, loopPc, expired, updated, created, inTable, restOfLoop>>

\* start() up to its loop: ListenUDP fails and start() returns with nothing
\* stored in running, or the socket is bound, wg.Add(1), running.Store(true),
\* NewTable, RegisterExpire, RegisterUpdated
start ==
    /\ loopPc = "starting"
    /\ \E listenOk \in BOOLEAN :
          IF listenOk
          THEN loopPc' = "top" /\ loopRunning' = "true"
          ELSE loopPc' = "failed" /\ UNCHANGED loopRunning
    /\ UNCHANGED <<flowTable, clock, expireTicker, updatedTicker, flusher,
                   stopper, expired, updated, created, inTable, restOfLoop>>

\* Stop(): if running.Load() == true { running.Store(false); wg.Wait() };
\* it can be called in every state of the agent and again after it returned
StopCall ==
    /\ stopper # "waiting"
    /\ IF loopRunning = "true"
       THEN loopRunning' = "false" /\ stopper' = "waiting"
       ELSE stopper' = "returned" /\ UNCHANGED loopRunning
    /\ UNCHANGED <<flowTable, clock, expireTicker, updatedTicker, flusher,
                   loopPc, expired, updated, created, inTable, restOfLoop>>

\* wg.Wait() returns once the task has run its deferred wg.Done()
StopReturn ==
    /\ stopper = "waiting"
    /\ loopPc = "ended"
    /\ stopper' = "returned"
    /\ UNCHANGED <<flowTable, clock, expireTicker, updatedTicker, flusher,
                   loopRunning, loopPc, expired, updated, created, inTable, restOfLoop>>

\* for sfa.running.Load() == true { ... }; when the loop ends the deferred
\* calls run: flowTable.UnregisterAll(), wg.Done(), conn.Close()
LoopCheck ==
    /\ loopPc = "top"
    /\ IF loopRunning = "true"
       THEN /\ loopPc' = "select"
            /\ UNCHANGED <<flowTable, expired>>
       ELSE \E flush \in BOOLEAN :
              LET r == UnregisterAll(flowTable, flush)
              IN /\ flowTable' = r.table
                 /\ expired' = ExpireCallback(expired, r.batch)
                 /\ loopPc' = "ended"
    /\ UNCHANGED <<clock, expireTicker, updatedTicker, flusher, stopper,
                   loopRunning, updated, created, inTable, restOfLoop>>

\* case now := <-sfa.flowTable.GetExpireTicker(): sfa.flowTable.Expire(now)
ServeExpire ==
    /\ loopPc = "select"
    /\ expireTicker # 0
    /\ LET r == Expire(flowTable, expireTicker)
       IN /\ flowTable' = r.table
          /\ expired' = ExpireCallback(expired, r.batch)
    /\ UNCHANGED updated
    /\ expireTicker' = 0
    /\ loopPc' = "Expire"
    /\ inTable' = inTable \cup {[task |-> CallbackTask("agent"), op |-> "Expire"]}
    /\ UNCHANGED <<clock, updatedTicker, flusher, stopper, loopRunning,
                   created, restOfLoop>>

\* case now := <-sfa.flowTable.GetUpdatedTicker(): sfa.flowTable.Updated(now),
\* which hands the touched records to the updated callback
ServeUpdated ==
    /\ loopPc = "select"
    /\ updatedTicker # 0
    /\ LET r == Updated(flowTable, updatedTicker)
       IN /\ flowTable' = r.table
          /\ updated' = UpdatedCallback(r.batch)
    /\ updatedTicker' = 0
    /\ loopPc' = "Updated"
    /\ inTable' = inTable \cup {[task |-> CallbackTask("agent"), op |-> "Updated"]}
    /\ UNCHANGED <<clock, expireTicker, flusher, stopper, loopRunning,
                   expired, created, restOfLoop>>

\* case <-sfa.flush: sfa.flowTable.ExpireNow(), then sfa.flushDone <- true
ServeFlush ==
    /\ loopPc = "select"
    /\ flusher = "sending"
    /\ LET r == ExpireNow(flowTable)
       IN /\ flowTable' = r.table
          /\ expired' = ExpireCallback(expired, r.batch)
    /\ UNCHANGED updated
    /\ flusher' = "waiting"
    /\ loopPc' = "ExpireNow"
    /\ inTable' = inTable \cup {[task |-> CallbackTask("agent"), op |-> "ExpireNow"]}
    /\ UNCHANGED <<clock, expireTicker, updatedTicker, stopper, loopRunning,
                   created, restOfLoop>>

\* sfa.flushDone <- true meets the receive of Flush()
FlushDone ==
    /\ loopPc = "ack"
    /\ flusher = "waiting"
    /\ flusher' = "idle"
    /\ loopPc' = "top"
    /\ UNCHANGED <<flowTable, clock, expireTicker, updatedTicker, stopper,
                   loopRunning, expired, updated, created, inTable, restOfLoop>>

\* the table operation of the agent task, callback included, returns: back to the loop
\* condition, or on to sfa.flushDone <- true after ExpireNow()
TableOpReturn ==
    /\ loopPc \in InTablePcs
    /\ inTable' = {x \in inTable : x.op # loopPc}
    /\ loopPc' = IF loopPc = "ExpireNow" THEN "ack" ELSE "top"
    /\ updated' = {}
    /\ UNCHANGED <<flowTable, clock, expireTicker, updatedTicker, flusher,
                   stopper, loopRunning, expired, created, restOfLoop>>

\* default: sfa.feedFlowTable(conn), taken only when no other case is
\* ready; the task waits in conn.ReadFromUDP, up to the deadline
ServeDefault ==
    /\ loopPc = "select"
    /\ expireTicker = 0
    /\ updatedTicker = 0
    /\ flusher # "sending"
    /\ loopPc' = "ReadFromUDP"
    /\ UNCHANGED <<flowTable, clock, expireTicker, updatedTicker, flusher,
                   stopper, loopRunning, expired, updated, created, inTable,
                   restOfLoop>>

\* feedFlowTable after the wait. Key 0: ReadFromUDP returned an error (the
\* deadline) or the datagram holds no flow sample, and feedFlowTable
\* returns. Key k: FlowsFromSFlowSample inserts the flow of a sample of the
\* datagram, the first one or a further one, at the time it is now
feedFlowTable(k) ==
    /\ IF k = 0
       THEN /\ loopPc = "ReadFromUDP"
            /\ loopPc' = "top"
            /\ UNCHANGED <<flowTable, created, inTable>>
       ELSE /\ loopPc \in {"ReadFromUDP", "feedFlowTable"}
            /\ IF k \in DOMAIN flowTable
               THEN /\ flowTable' = TableInsert(flowTable, k, clock, 0)
                    /\ UNCHANGED created
               ELSE /\ created < MaxRecords
                    /\ flowTable' = TableInsert(flowTable, k, clock, created + 1)
                    /\ created' = created + 1
            /\ loopPc' = "feedFlowTable"
            /\ inTable' = inTable \cup {[task |-> "agent", op |-> "feedFlowTable"]}
    /\ UNCHANGED <<clock, expireTicker, updatedTicker, flusher, stopper,
                   loopRunning, expired, updated, restOfLoop>>

----------------------------------------------------------------------------
(***************************************************************************)
(* OvsSFlowProbesHandler (flow/probes/ovssflow.go) and the switch database *)
(***************************************************************************)
BindAddress == "127.0.0.1"

\* SFlowAgent.GetTarget: "<addr>:<port>"
GetTarget(ag) == <<BindAddress, ag.Port>>

\* probeID: uuids are written here without "-", so the replacement of "-" by
\* "_" leaves them as they are
probeID(i) == "SkydiveSFlowProbe_" \o i

\* the nodes handed to RegisterProbe / UnregisterProbe: host tells whether the
\* graph has an ownership path from the node to a host
ProbeNodes ==
    {[Type |-> "ovsbridge", UUID |-> u, host |-> TRUE] : u \in BridgeUUIDs}
    \cup {[Type |-> "ovsbridge", UUID |-> "b1", host |-> FALSE],
          [Type |-> "ovsbridge", UUID |-> "", host |-> TRUE],
          [Type |-> "host", UUID |-> "h1", host |-> TRUE]}

isOvsBridge(n) == n.UUID # "" /\ n.Type = "ovsbridge"

\* retrieveSFlowProbeUUID: the uuids of the rows whose external_ids carry
\* the probe-id; the first one in the order of the select result is taken
retrieveSFlowProbeUUID(rows, id) == {r.uuid : r \in {x \in rows : x.id = id}}

\* a row uuid the switch does not use
NewRowUUID(rows) ==
    CHOOSE u \in 1..(Cardinality(rows) + 1) : \A r \in rows : r.uuid # u

\* the tasks that call the handler
Callers == 1..NumCallers

\* no call of the task in progress
NoCall == [pc |-> "idle", bridge |-> "", found |-> 0, target |-> <<>>,
           fresh |-> 0]

\* a call that has its agent and is about to run the select of
\* retrieveSFlowProbeUUID; fresh is the port of the agent when Alloc created
\* it for this call, 0 when the bridge had its agent already
AtSelect(bridgeUUID, alloc, ag, r) ==
    [pc |-> "select", bridge |-> bridgeUUID, found |-> 0,
     target |-> GetTarget(ag[r.agent]),
     fresh |-> IF r.err = "nil" THEN ag[r.agent].Port ELSE 0]

\* RegisterProbeOnBridge up to the return of allocator.Alloc, which takes and
\* releases the lock of the allocator: on an error other than
\* AgentAlreadyAllocated the call returns it, else probe.Target is set and
\* the call goes on to registerSFlowProbeOnBridge
RegisterProbeOnBridge(c, bridgeUUID) ==
    /\ op = Idle
    /\ regCalls[c] = NoCall
    /\ \E r \in AllocResults(cfg, allocated, agent, bridgeUUID) :
          /\ Len(r.agent) <= MaxAgents
          /\ allocated' = r.allocated
          /\ agent' = r.agent
          /\ ret' = r.ret
          /\ IF r.ret.err \notin {"nil", "AgentAlreadyAllocated"}
             THEN /\ pret' = [call |-> "RegisterProbe", err |-> r.ret.err]
                  /\ UNCHANGED regCalls
             ELSE /\ regCalls' = [regCalls EXCEPT ![c] =
                                     AtSelect(bridgeUUID, r.allocated, r.agent, r.ret)]
                  /\ UNCHANGED pret
    /\ UNCHANGED <<cfg, op, sflowRows, bridgeSFlow, restOfProbe>>

\* a RegisterProbe that allocates the agent before it looks for the path
RegisterProbeAllocFirst(c, n) ==
    /\ regCalls[c] = NoCall
    /\ IF ~isOvsBridge(n)
       THEN /\ pret' = [call |-> "RegisterProbe", err |-> "nil"]
            /\ UNCHANGED <<allocVars, sflowRows, bridgeSFlow, regCalls, restOfProbe>>
       ELSE /\ op = Idle
            /\ \E r \in AllocResults(cfg, allocated, agent, n.UUID) :
                  /\ Len(r.agent) <= MaxAgents
                  /\ allocated' = r.allocated
                  /\ agent' = r.agent
                  /\ ret' = r.ret
                  /\ IF r.ret.err \notin {"nil", "AgentAlreadyAllocated"}
                     THEN /\ pret' = [call |-> "RegisterProbe", err |-> r.ret.err]
                          /\ UNCHANGED regCalls
                     ELSE IF ~n.host
                     THEN /\ pret' = [call |-> "RegisterProbe",
                                      err |-> "Failed to determine probePath"]
                          /\ UNCHANGED regCalls
                     ELSE /\ regCalls' = [regCalls EXCEPT ![c] =
                                 AtSelect(n.UUID, r.allocated, r.agent, r.ret)]
                          /\ UNCHANGED pret
            /\ UNCHANGED <<cfg, op, sflowRows, bridgeSFlow, restOfProbe>>

\* RegisterProbe of task c: a node that is no OVS bridge returns nil, a bridge
\* without ownership path to a host returns the error, and else
\* RegisterProbeOnBridge is entered; the call is seen up to the return of
\* Alloc, other tasks and the switch run before its two Exec
RegisterProbe(c, n) ==
    /\ regCalls[c] = NoCall
    /\ IF ~isOvsBridge(n)
       THEN /\ pret' = [call |-> "RegisterProbe", err |-> "nil"]
            /\ UNCHANGED <<allocVars, sflowRows, bridgeSFlow, regCalls, restOfProbe>>
       ELSE IF ~n.host
       THEN /\ pret' = [call |-> "RegisterProbe",
                        err |-> "Failed to determine probePath"]
            /\ UNCHANGED <<allocVars, sflowRows, bridgeSFlow, regCalls, restOfProbe>>
       ELSE RegisterProbeOnBridge(c, n.UUID)

\* registerSFlowProbeOnBridge, its first Exec: the select of
\* retrieveSFlowProbeUUID; an error of the switch is returned as it is
RegisterSelect(c) ==
    /\ regCalls[c].pc = "select"
    /\ \E selOk \in BOOLEAN :
          IF ~selOk
          THEN /\ pret' = [call |-> "RegisterProbe", err |-> "ovsdb"]
               /\ regCalls' = [regCalls EXCEPT ![c] = NoCall]
          ELSE LET found == retrieveSFlowProbeUUID(sflowRows,
                                                  probeID(regCalls[c].bridge))
               IN /\ \E u \in (IF found = {} THEN {0} ELSE found) :
                       regCalls' = [regCalls EXCEPT ![c] =
                                       [@ EXCEPT !.pc = "exec", !.found = u]]
                  /\ UNCHANGED pret
    /\ UNCHANGED <<allocVars, sflowRows, bridgeSFlow, restOfProbe>>

\* the second Exec of registerSFlowProbeOnBridge: the insert, when the select
\* found no row, and the update of Bridge.sflow, in one transaction; a
\* reference to a row the switch has collected meanwhile makes it fail
RegisterExec(c) ==
    /\ regCalls[c].pc = "exec"
    /\ LET call == regCalls[c]
           id == probeID(call.bridge)
       IN \E execOk \in BOOLEAN :
            IF ~execOk \/ (call.found # 0 /\ \A r \in sflowRows : r.uuid # call.found)
            THEN /\ pret' = [call |-> "RegisterProbe", err |-> "ovsdb"]
                 /\ UNCHANGED <<sflowRows, bridgeSFlow>>
            ELSE IF call.found # 0
            THEN /\ bridgeSFlow' = [bridgeSFlow EXCEPT ![call.bridge] = call.found]
                 /\ pret' = [call |-> "RegisterProbe", err |-> "nil"]
                 /\ UNCHANGED sflowRows
            ELSE LET u == NewRowUUID(sflowRows)
                 IN /\ sflowRows' = sflowRows \cup
                           {[uuid |-> u, id |-> id, target |-> call.target]}
                    /\ bridgeSFlow' = [bridgeSFlow EXCEPT ![call.bridge] = u]
                    /\ pret' = [call |-> "RegisterProbe", err |-> "nil"]
    /\ regCalls' = [regCalls EXCEPT ![c] = NoCall]
    /\ UNCHANGED <<allocVars, restOfProbe>>

\* UnregisterProbe -> unregisterProbe -> UnregisterSFlowProbeFromBridge, up to
\* the reply to the select of retrieveSFlowProbeUUID: a node that is no OVS
\* bridge returns nil, an error of the select is returned, no row found
\* returns nil; else the call goes on to its update
UnregisterProbe(c, n) ==
    /\ regCalls[c] = NoCall
    /\ IF ~isOvsBridge(n)
       THEN /\ pret' = [call |-> "UnregisterProbe", err |-> "nil"]
            /\ UNCHANGED regCalls
       ELSE \E selOk \in BOOLEAN :
              IF ~selOk
              THEN /\ pret' = [call |-> "UnregisterProbe", err |-> "ovsdb"]
                   /\ UNCHANGED regCalls
              ELSE IF retrieveSFlowProbeUUID(sflowRows, probeID(n.UUID)) = {}
              THEN /\ pret' = [call |-> "UnregisterProbe", err |-> "nil"]
                   /\ UNCHANGED regCalls
              ELSE /\ regCalls' = [regCalls EXCEPT ![c] =
                          [NoCall EXCEPT !.pc = "update", !.bridge = n.UUID]]
                   /\ UNCHANGED pret
    /\ UNCHANGED <<sflowRows, bridgeSFlow, allocVars, restOfProbe>>

\* UnregisterSFlowProbeFromBridge, its second Exec: the update that sets
\* Bridge.sflow of the bridge to the empty set
UnregisterExec(c) ==
    /\ regCalls[c].pc = "update"
    /\ \E execOk \in BOOLEAN :
          IF execOk
          THEN /\ bridgeSFlow' = [bridgeSFlow EXCEPT ![regCalls[c].bridge] = 0]
               /\ pret' = [call |-> "UnregisterProbe", err |-> "nil"]
          ELSE /\ pret' = [call |-> "UnregisterProbe", err |-> "ovsdb"]
               /\ UNCHANGED bridgeSFlow
    /\ regCalls' = [regCalls EXCEPT ![c] = NoCall]
    /\ UNCHANGED <<sflowRows, allocVars, restOfProbe>>

\* the switch garbage-collects an sFlow row that no bridge references
SwitchCollect ==
    /\ \E r \in sflowRows :
          /\ \A b \in BridgeUUIDs : bridgeSFlow[b] # r.uuid
          /\ sflowRows' = sflowRows \ {r}
    /\ UNCHANGED <<bridgeSFlow, pret, regCalls, allocVars, restOfProbe>>

----------------------------------------------------------------------------
(***************************************************************************)
(* The cache-based probe handler: GetProbePath and cacheUpdater            *)
(***************************************************************************)
Indexes == 1..NumIndexes

\* what the graph lookup can yield for an interface index
ProbePaths == {"", "host/br0"}

\* strconv.FormatInt(index, 10): the cache key
FormatInt(index) == ToString(index)

\* lookupForProbePath on the current graph
lookupForProbePath(index) == paths[index]

\* the send o.cacheUpdaterChan <- index completes: GetProbePath returns ""
SendIndex(index) ==
    /\ cacheUpdaterChan' = Append(cacheUpdaterChan, index)
    /\ caller' = [pc |-> "idle", index |-> 0]
    /\ gpret' = [index |-> index, path |-> ""]

\* GetProbePath: cache hit returns the path; on a miss the index is sent on
\* the channel, and the send blocks while the buffer is full
GetProbePath(index) ==
    /\ caller.pc = "idle"
    /\ IF FormatInt(index) \in DOMAIN cache
       THEN /\ gpret' = [index |-> index, path |-> cache[FormatInt(index)]]
            /\ UNCHANGED <<cacheUpdaterChan, caller>>
       ELSE IF Len(cacheUpdaterChan) < ChanCapacity
       THEN SendIndex(index)
       ELSE /\ caller' = [pc |-> "sending", index |-> index]
            /\ UNCHANGED <<cacheUpdaterChan, gpret>>
    /\ UNCHANGED <<cache, updater, paths, handlerRunning, hstop, restOfCache>>

\* the blocked send goes through once the updater has made room
GetProbePathResume ==
    /\ caller.pc = "sending"
    /\ Len(cacheUpdaterChan) < ChanCapacity
    /\ SendIndex(caller.index)
    /\ UNCHANGED <<cache, updater, paths, handlerRunning, hstop, restOfCache>>

\* the cacheUpdater task at a position where it holds no index
UpdaterAt(pc) == [pc |-> pc, index |-> 0, path |-> ""]

\* Start(): go o.cacheUpdater(); the task begins at the loop condition
StartCacheUpdater ==
    /\ updater.pc = "none"
    /\ updater' = UpdaterAt("top")
    /\ UNCHANGED <<cache, cacheUpdaterChan, caller, gpret, paths, handlerRunning, hstop, restOfCache>>

\* cacheUpdater, case index = <-o.cacheUpdaterChan: the receive makes room
\* in the channel
CacheUpdaterReceive ==
    /\ updater.pc = "loop"
    /\ cacheUpdaterChan # <<>>
    /\ updater' = [pc |-> "lookup", index |-> Head(cacheUpdaterChan), path |-> ""]
    /\ cacheUpdaterChan' = Tail(cacheUpdaterChan)
    /\ UNCHANGED <<cache, caller, gpret, paths, handlerRunning, hstop, restOfCache>>

\* cacheUpdater, path := o.lookupForProbePath(index): the graph is walked
\* under its lock
CacheUpdaterLookup ==
    /\ updater.pc = "lookup"
    /\ graphLock = "free"
    /\ updater' = [updater EXCEPT !.pc = "set", !.path = lookupForProbePath(updater.index)]
    /\ UNCHANGED <<cache, cacheUpdaterChan, caller, gpret, paths,
                   handlerRunning, hstop, restOfCache>>

\* an updater that caches whatever the lookup yields
CacheUpdaterCachesEmpty ==
    /\ updater.pc = "set"
    /\ cache' = (FormatInt(updater.index) :> updater.path) @@ cache
    /\ updater' = UpdaterAt("top")
    /\ UNCHANGED <<cacheUpdaterChan, caller, gpret, paths, handlerRunning,
                   hstop, restOfCache>>

\* cacheUpdater, if path != "" { o.cache.Set(FormatInt(index), path, ...) },
\* and back to the loop condition
CacheUpdaterSet ==
    /\ updater.pc = "set"
    /\ cache' = IF updater.path # ""
                THEN (FormatInt(updater.index) :> updater.path) @@ cache
                ELSE cache
    /\ updater' = UpdaterAt("top")
    /\ UNCHANGED <<cacheUpdaterChan, caller, gpret, paths, handlerRunning,
                   hstop, restOfCache>>

\* cacheUpdater: for o.running.Load() == true { select ... }; leaving the
\* loop runs the deferred o.wg.Done()
CacheUpdaterCheck ==
    /\ updater.pc = "top"
    /\ updater' = UpdaterAt(IF handlerRunning = "true" THEN "loop" ELSE "ended")
    /\ UNCHANGED <<cache, cacheUpdaterChan, caller, gpret, paths,
                   handlerRunning, hstop, restOfCache>>

\* Stop() of the handler after o.agent.Stop(): o.running.Store(false), then
\* the send o.done <- true on the unbuffered channel
HandlerStop ==
    /\ hstop = "idle"
    /\ handlerRunning' = "false"
    /\ hstop' = "sending"
    /\ UNCHANGED <<cache, cacheUpdaterChan, caller, gpret, updater, paths,
                   restOfCache>>

\* cacheUpdater, case <-o.done: return; the send of Stop() completes and
\* Stop() goes on to o.wg.Wait()
CacheUpdaterDone ==
    /\ updater.pc = "loop"
    /\ hstop = "sending"
    /\ updater' = UpdaterAt("ended")
    /\ hstop' = "waiting"
    /\ UNCHANGED <<cache, cacheUpdaterChan, caller, gpret, paths,
                   handlerRunning, restOfCache>>

\* o.wg.Wait() returns: the updater has called o.wg.Done()
HandlerStopReturn ==
    /\ hstop = "waiting"
    /\ updater.pc = "ended"
    /\ hstop' = "returned"
    /\ UNCHANGED <<cache, cacheUpdaterChan, caller, gpret, updater, paths,
                   handlerRunning, restOfCache>>

\* a cache entry reaches its expiration time
CacheExpire(index) ==
    /\ FormatInt(index) \in DOMAIN cache
    /\ cache' = [k \in DOMAIN cache \ {FormatInt(index)} |-> cache[k]]
    /\ UNCHANGED <<cacheUpdaterChan, caller, gpret, updater, paths, handlerRunning, hstop, restOfCache>>

\* the topology changes what the lookup of an index finds
GraphChange(index, path) ==
    /\ paths[index] # path
    /\ paths' = [paths EXCEPT ![index] = path]
    /\ UNCHANGED <<cache, cacheUpdaterChan, caller, gpret, updater, handlerRunning, hstop, restOfCache>>

----------------------------------------------------------------------------
(***************************************************************************)
(* Alert engine (topology/graph/alert.go): identifiers, keys and values    *)
(***************************************************************************)
RuleIDs == 1..NumRuleIDs

\* UUID.String(): the canonical rendering of an identifier
UUIDString(id) == "r" \o ToString(id)

\* uuid.ParseHex: id 0 with ok = FALSE stands for the error result
ParseHex(s) ==
    IF \E id \in RuleIDs : UUIDString(id) = s
    THEN [ok |-> TRUE, id |-> CHOOSE id \in RuleIDs : UUIDString(id) = s]
    ELSE [ok |-> FALSE, id |-> 0]

\* etcdPath: "/alert/<uuid>", a key being the sequence of its segments
etcdPath(id) == <<"alert", UUIDString(id)>>

\* path.Base
PathBase(key) == key[Len(key)]

FIXED == 1

TestHost == "Type == \"host\""

TestBroken == "Type =="

TestExprs == {TestHost, TestBroken}

\* a test whose division fails at run time for an MTU of 1500
TestDiv == "1500 / (MTU - 1500) == 0"

\* json.Marshal of an AlertTest whose UUID is set
Marshal(at) ==
    [kind |-> "json", UUID |-> UUIDString(at.UUID), Select |-> at.Select,
     Test |-> at.Test, Type |-> at.Type, Count |-> at.Count]

\* the rules a client can create: Create stores them with Type FIXED, Count 0
AlertTests == [UUID : RuleIDs, Select : {"Type"}, Test : TestExprs,
               Type : {FIXED}, Count : {0}]

\* a JSON object that has no "UUID" member
NoUUIDValue == [kind |-> "json", UUID |-> "", Select |-> "Type",
                Test |-> TestHost, Type |-> FIXED, Count |-> 0]

\* a value that is not JSON
GarbageValue == [kind |-> "garbage", UUID |-> "", Select |-> "",
                 Test |-> "", Type |-> 0, Count |-> 0]

\* the node of a delete/expire event carries no value
NoValue == [kind |-> "none", UUID |-> "", Select |-> "",
            Test |-> "", Type |-> 0, Count |-> 0]

\* what clients of the store write: every rule once, a second version of
\* rule 1, and the two kinds of malformed value
Values ==
    {Marshal(at) : at \in {x \in AlertTests : x.Test = TestHost \/ x.UUID = 1}}
    \cup {NoUUIDValue, GarbageValue}

Keys == {etcdPath(id) : id \in RuleIDs} \cup {<<"alert", "notes">>}

\* alertTestFromData: json.Unmarshal into an AlertTest; UUID 0 is the nil
\* pointer left by a document without "UUID"
alertTestFromData(data) ==
    IF data.kind # "json" THEN [err |-> TRUE, at |-> NoValue]
    ELSE IF data.UUID = ""
    THEN [err |-> FALSE,
          at |-> [UUID |-> 0, Select |-> data.Select, Test |-> data.Test,
                  Type |-> data.Type, Count |-> data.Count]]
    ELSE IF ~ParseHex(data.UUID).ok THEN [err |-> TRUE, at |-> NoValue]
    ELSE [err |-> FALSE,
          at |-> [UUID |-> ParseHex(data.UUID).id, Select |-> data.Select,
                  Test |-> data.Test, Type |-> data.Type, Count |-> data.Count]]

\* SetAlertTest: a.alerts[*at.UUID] = *at; dereferencing a nil UUID panics
SetAlertTest(al, at) ==
    IF at.UUID = 0 THEN [alerts |-> al, panic |-> TRUE]
    ELSE [alerts |-> (at.UUID :> at) @@ al, panic |-> FALSE]

\* DeleteAlertTest: "Not found" leaves the map as it is
DeleteAlertTest(al, id) ==
    IF id \notin DOMAIN al THEN al
    ELSE [r \in DOMAIN al \ {id} |-> al[r]]

\* Index(): map from UUID string to rule
Index(al) ==
    [s \in {UUIDString(al[r].UUID) : r \in DOMAIN al} |->
        al[CHOOSE r \in DOMAIN al : UUIDString(al[r].UUID) = s]]

\* the watcher applying every event to the map keyed by the event key
WatchEventByKey(al, e) ==
    IF e.dir THEN [alerts |-> al, panic |-> FALSE]
    ELSE IF e.action \in {"create", "set", "update"}
    THEN LET r == alertTestFromData(e.value)
             k == ParseHex(PathBase(e.key))
         IN IF r.err \/ ~k.ok THEN [alerts |-> al, panic |-> FALSE]
            ELSE [alerts |-> (k.id :> r.at) @@ al, panic |-> FALSE]
    ELSE IF e.action \in {"expire", "delete"}
    THEN LET k == ParseHex(PathBase(e.key))
         IN [alerts |-> IF k.ok THEN DeleteAlertTest(al, k.id) ELSE al,
             panic |-> FALSE]
    ELSE [alerts |-> al, panic |-> FALSE]

\* body of the watcher loop of NewAlertManager for one event
WatchEvent(al, e) ==
    IF e.dir THEN [alerts |-> al, panic |-> FALSE]
    ELSE IF e.action \in {"create", "set", "update"}
    THEN LET r == alertTestFromData(e.value)
         IN IF r.err THEN [alerts |-> al, panic |-> FALSE]
            ELSE SetAlertTest(al, r.at)
    ELSE IF e.action \in {"expire", "delete"}
    THEN LET k == ParseHex(PathBase(e.key))
         IN [alerts |-> IF k.ok THEN DeleteAlertTest(al, k.id) ELSE al,
             panic |-> FALSE]
    ELSE [alerts |-> al, panic |-> FALSE]

\* NewAlertManager: `for _, node := range resp.Node.Nodes`, listing being the
\* keys in the order of the response: every value that deserializes goes to
\* SetAlertTest, a later value replacing an earlier one with the same UUID;
\* the panic of SetAlertTest ends the construction
RECURSIVE LoadAll(_, _)
LoadAll(st, listing) ==
    IF listing = <<>> THEN [alerts |-> <<>>, panic |-> FALSE]
    ELSE LET prev == LoadAll(st, SubSeq(listing, 1, Len(listing) - 1))
             r == alertTestFromData(st[listing[Len(listing)]])
         IN IF prev.panic \/ r.err THEN prev
            ELSE SetAlertTest(prev.alerts, r.at)

----------------------------------------------------------------------------
(***************************************************************************)
(* The KV store and its watcher stream                                     *)
(***************************************************************************)
Event(action, key, dir, value) ==
    [action |-> action, key |-> key, dir |-> dir, value |-> value]

NoEvent == [action |-> "none", key |-> <<>>]

\* the process of the engine has not died of a panic or a fatal error
Alive == watcher # "panicked" /\ ranging.pc # "fatal"

\* the watch delivers to a watcher that is still there
CanPublish == watcher = "running" => Len(events) < MaxPending

Publish(e) == IF watcher = "running" THEN Append(events, e) ELSE events

\* a client of the store writes a value node below /alert
KVPut(action, k, v) ==
    /\ Alive
    /\ CanPublish
    /\ action = "create" => k \notin DOMAIN store
    /\ action = "update" => k \in DOMAIN store
    /\ store' = (k :> v) @@ store
    /\ events' = Publish(Event(action, k, FALSE, v))
    /\ UNCHANGED <<alerts, watcher, wlast, evalVars, restOfAlert>>

\* a client deletes a value node, or its TTL runs out
KVRemove(action, k) ==
    /\ Alive
    /\ CanPublish
    /\ k \in DOMAIN store
    /\ store' = [q \in DOMAIN store \ {k} |-> store[q]]
    /\ events' = Publish(Event(action, k, FALSE, NoValue))
    /\ UNCHANGED <<alerts, watcher, wlast, evalVars, restOfAlert>>

\* a client deletes the directory /alert recursively: one event, for the
\* directory node
KVDeleteDir ==
    /\ Alive
    /\ CanPublish
    /\ store # <<>>
    /\ store' = <<>>
    /\ events' = Publish(Event("delete", <<"alert">>, TRUE, NoValue))
    /\ UNCHANGED <<alerts, watcher, wlast, evalVars, restOfAlert>>

\* the keys a value is written under: the key of its rule or a key that is
\* no uuid (the watcher never reads the key of a written value)
KeysFor(v) ==
    {<<"alert", "notes">>}
    \cup {IF ParseHex(v.UUID).ok THEN <<"alert", v.UUID>> ELSE etcdPath(1)}

\* what watcher.Next can return for a watch below /alert/
StreamEvents ==
    {Event(e[1], e[3], FALSE, e[2]) :
        e \in {x \in {"create", "set", "update"} \X Values \X Keys : x[3] \in KeysFor(x[2])}}
    \cup {Event("compareAndSwap", etcdPath(1), FALSE, v) : v \in {x \in Values : x.UUID = UUIDString(1)}}
    \cup {Event(a, k, FALSE, NoValue) : a \in {"delete", "expire"}, k \in Keys}
    \cup {Event(a, <<"alert">>, TRUE, NoValue) : a \in {"set", "delete", "expire"}}

\* the store delivers an event, whatever the operation that caused it
StreamEvent(e) ==
    /\ watcher = "running"
    /\ Len(events) < MaxPending
    /\ events' = Append(events, e)
    /\ UNCHANGED <<store, alerts, watcher, wlast, evalVars, restOfAlert>>

\* the events for which the watcher calls SetAlertTest or DeleteAlertTest,
\* which take a.alertsLock for writing
LocksAlerts(e) ==
    /\ ~e.dir
    /\ \/ e.action \in {"create", "set", "update"} /\ ~alertTestFromData(e.value).err
       \/ e.action \in {"expire", "delete"} /\ ParseHex(PathBase(e.key)).ok

\* one turn of the watcher goroutine: watcher.Next, then the switch; the
\* write of the rule map waits while EvalNodes holds a.alertsLock
WatcherStep ==
    /\ Alive
    /\ watcher = "running"
    /\ events # <<>>
    /\ ranging.pc = "yes" => ~LocksAlerts(Head(events))
    /\ LET res == WatchEvent(alerts, Head(events))
       IN /\ alerts' = res.alerts
          /\ watcher' = IF res.panic THEN "panicked" ELSE "running"
    /\ wlast' = [action |-> Head(events).action, key |-> Head(events).key]
    /\ events' = Tail(events)
    /\ UNCHANGED <<store, evalVars, restOfAlert>>

\* watcher.Next returns an error (the store cannot be reached, the watched
\* index is gone): `if err != nil { return }`. The goroutine ends without a
\* log line, the engine goes on without it, and what the watch had not
\* delivered is lost
WatcherNextError ==
    /\ watcher = "running"
    /\ watcher' = "ended"
    /\ events' = <<>>
    /\ UNCHANGED <<store, alerts, wlast, evalVars, restOfAlert>>

\* identifiers that occur nowhere yet: what uuid.NewV4 returns
FreshIDs ==
    {id \in RuleIDs :
        /\ id \notin DOMAIN alerts
        /\ emitted[id] = 0
        /\ \A k \in DOMAIN store : k # etcdPath(id) /\ store[k].UUID # UUIDString(id)
        /\ \A i \in 1..Len(events) :
              events[i].key # etcdPath(id) /\ events[i].value.UUID # UUIDString(id)}

\* the rules handed to Create: whatever Type and Count the caller filled in
CreateInputs == [Select : {"Type"}, Test : TestExprs, Type : {0, FIXED},
                 Count : {0, 7}]

\* a Create that stores the Type and Count of its argument
CreateAsGiven(resource) ==
    /\ Alive
    /\ CanPublish
    /\ \E id \in FreshIDs :
         LET at == [UUID |-> id, Select |-> resource.Select, Test |-> resource.Test,
                    Type |-> resource.Type, Count |-> resource.Count]
         IN /\ store' = (etcdPath(id) :> Marshal(at)) @@ store
            /\ events' = Publish(Event("set", etcdPath(id), FALSE, Marshal(at)))
    /\ UNCHANGED <<alerts, watcher, wlast, evalVars, restOfAlert>>

\* AlertManager.Create: at.UUID = fresh uuid, at.Type = FIXED, at.Count = 0,
\* json.Marshal, etcdKeyAPI.Set(at.etcdPath(), data)
Create(resource) ==
    /\ Alive
    /\ CanPublish
    /\ \E id \in FreshIDs :
         LET at == [UUID |-> id, Select |-> resource.Select, Test |-> resource.Test,
                    Type |-> FIXED, Count |-> 0]
         IN /\ store' = (etcdPath(id) :> Marshal(at)) @@ store
            /\ events' = Publish(Event("set", etcdPath(id), FALSE, Marshal(at)))
    /\ UNCHANGED <<alerts, watcher, wlast, evalVars, restOfAlert>>

\* AlertManager.Delete: delete /alert/<id>; the store reports a missing key
Delete(idString) ==
    /\ Alive
    /\ CanPublish
    /\ ParseHex(idString).ok
    /\ LET k == etcdPath(ParseHex(idString).id)
       IN /\ k \in DOMAIN store
          /\ store' = [q \in DOMAIN store \ {k} |-> store[q]]
          /\ events' = Publish(Event("delete", k, FALSE, NoValue))
    /\ UNCHANGED <<alerts, watcher, wlast, evalVars, restOfAlert>>

----------------------------------------------------------------------------
(***************************************************************************)
(* Graph notifications and EvalNodes                                       *)
(***************************************************************************)
NodeIDs == 1..MaxNodes

NodeTypes == {"host", "ovsbridge"}

\* Graph.LookupNodesFromKey: the nodes whose metadata has the key
LookupNodesFromKey(g, key) == {n \in DOMAIN g : key \in DOMAIN g[n]}

\* a metadata value: its Go type and its literal
GoValue(t, v) == [type |-> t, val |-> v]

\* the metadata of a node that has its type only
TypeOnly(t) == [Type |-> GoValue("string", t)]

\* the metadata the probes give to the nodes
Metadatas ==
    {TypeOnly(t) : t \in NodeTypes}
    \cup {("MTU" :> GoValue("int", v)) @@ TypeOnly("host") : v \in {"1500", "9000"}}
    \cup {("Speed" :> GoValue("int64", "1000"))
          @@ ("Ports" :> GoValue("[]string", "[]")) @@ TypeOnly("host")}

\* toTypeValue: the evaluator type and value of a metadata value; the nil
\* pair for a type the switch has no case for
NilTypeValue == [type |-> "nil", val |-> "nil"]

toTypeValue(val) ==
    IF val.type = "bool" THEN [type |-> "bool", val |-> val.val]
    ELSE IF val.type = "uint8" THEN [type |-> "uint8", val |-> val.val]
    ELSE IF val.type = "uint32" THEN [type |-> "uint32", val |-> val.val]
    ELSE IF val.type = "uint" THEN [type |-> "uint64", val |-> val.val]
    ELSE IF val.type = "int" THEN [type |-> "int64", val |-> val.val]
    ELSE IF val.type = "float64" THEN [type |-> "float64", val |-> val.val]
    ELSE IF val.type = "string" THEN [type |-> "string", val |-> val.val]
    ELSE NilTypeValue

\* w := eval.NewWorld(); for k, v := range n.metadata { defConst(k, v) }
World(metadata) == [k \in DOMAIN metadata |-> toTypeValue(metadata[k])]

\* compile and run "(" + test + ") == true" in a world holding the metadata:
\* "error" is a compile error (a malformed test, an identifier that is not
\* defined or has not the type of the other operand) or a run time error
EvalTest(test, metadata) ==
    LET w == World(metadata)
    IN IF test = TestHost
       THEN IF "Type" \notin DOMAIN w THEN "error"
            ELSE IF w["Type"].type # "string" THEN "error"
            ELSE IF w["Type"].val = "host" THEN "true" ELSE "false"
       ELSE IF test = TestDiv
       THEN IF "MTU" \notin DOMAIN w THEN "error"
            ELSE IF w["MTU"].type # "int64" THEN "error"
            ELSE IF w["MTU"].val = "1500" THEN "error" ELSE "true"
       ELSE "error"

\* all orders in which a range loop can visit a set
Orders(S) == {s \in [1..Cardinality(S) -> S] : \A x \in S : \E i \in DOMAIN s : s[i] = x}

\* an inner loop that gives up the rule at the first test that fails
RECURSIVE EvalRuleStopsOnError(_, _, _, _)
EvalRuleStopsOnError(al, g, order, count) ==
    IF order = <<>> THEN <<>>
    ELSE LET n == Head(order)
             res == EvalTest(al.Test, g[n])
         IN IF res = "true"
            THEN <<[UUID |-> al.UUID, Type |-> FIXED, Count |-> count + 1,
                    ReasonData |-> n]>>
                 \o EvalRuleStopsOnError(al, g, Tail(order), count + 1)
            ELSE IF res = "error" THEN <<>>
            ELSE EvalRuleStopsOnError(al, g, Tail(order), count)

\* inner loop of EvalNodes for one rule: al is the loop's copy of the rule,
\* al.Count++ counts on the copy
RECURSIVE EvalRule(_, _, _, _)
EvalRule(al, g, order, count) ==
    IF order = <<>> THEN <<>>
    ELSE LET n == Head(order)
         IN IF EvalTest(al.Test, g[n]) = "true"
            THEN <<[UUID |-> al.UUID, Type |-> FIXED, Count |-> count + 1,
                    ReasonData |-> n]>>
                 \o EvalRule(al, g, Tail(order), count + 1)
            ELSE EvalRule(al, g, Tail(order), count)

\* EvalNodes: the messages emitted, rules and candidate nodes taken in the
\* given orders
RECURSIVE EvalNodes(_, _, _, _)
EvalNodes(al, g, ruleOrder, nodeOrder) ==
    IF ruleOrder = <<>> THEN <<>>
    ELSE LET r == al[Head(ruleOrder)]
             cand == LookupNodesFromKey(g, r.Select)
             order == SelectSeq(nodeOrder, LAMBDA n : n \in cand)
         IN EvalRule(r, g, order, r.Count)
            \o EvalNodes(al, g, Tail(ruleOrder), nodeOrder)

CountFor(ms, id) == Len(SelectSeq(ms, LAMBDA m : m.UUID = id))

Listeners == 1..NumListeners

\* EvalNodes is not inside a range over a.eventListeners
NoRange == [pc |-> "no", todo |-> <<>>, seen |-> {}, wrote |-> FALSE, added |-> 0]

\* a write of the map a.eventListeners that leaves it holding ls: when
\* EvalNodes is ranging over the map, the range has met a write
MapWrite(rg, ls) ==
    IF rg.pc = "yes" THEN [rg EXCEPT !.wrote = TRUE, !.seen = @ \cup ls] ELSE rg

\* EvalNodes has emitted sent and made the calls of rows, builds the message
\* Head(todo) (al.Count++ on its copy of the rule) and enters the range over
\* a.eventListeners for it; added is the node whose addition it was called
\* for (0: an update)
OpenRange(sent, rows, todo, added) ==
    /\ msgs' = Append(sent, Head(todo))
    /\ delivered' = Append(rows, <<>>)
    /\ emitted' = [emitted EXCEPT ![Head(todo).UUID] = @ + 1]
    /\ ranging' = [pc |-> "yes", todo |-> Tail(todo), seen |-> eventListeners,
                   wrote |-> FALSE, added |-> added]

\* AddEventListener: a.eventListeners[l] = l
AddEventListener(l) ==
    /\ ranging.pc # "fatal"
    /\ eventListeners' = eventListeners \cup {l}
    /\ registered' = IF l \in eventListeners THEN registered
                     ELSE Append(registered, l)
    /\ ranging' = MapWrite(ranging, eventListeners')
    /\ UNCHANGED <<nodes, emitted, msgs, gcount, delivered, scopes, graphLock,
                   resync, watchVars, restOfAlert>>

\* DelEventListener: delete(a.eventListeners, l)
DelEventListener(l) ==
    /\ ranging.pc # "fatal"
    /\ eventListeners' = eventListeners \ {l}
    /\ registered' = SelectSeq(registered, LAMBDA x : x # l)
    /\ ranging' = MapWrite(ranging, eventListeners')
    /\ UNCHANGED <<nodes, emitted, msgs, gcount, delivered, scopes, graphLock,
                   resync, watchVars, restOfAlert>>

\* the candidate nodes of the rules: EvalNodes builds a world for each
Candidates(al, g) ==
    {n \in DOMAIN g : \E r \in DOMAIN al : n \in LookupNodesFromKey(g, al[r].Select)}

\* EvalNodes, called by OnNodeAdded / OnNodeUpdated with the graph g, up to
\* the point where it has built its first message and enters
\* `for _, l := range a.eventListeners`, or up to its return when no test is
\* true; it holds a.alertsLock for reading until it returns
Notify(g, added) ==
    /\ scopes' = [n \in Candidates(alerts, g) |-> World(g[n])]
    /\ \E ruleOrder \in Orders(DOMAIN alerts), nodeOrder \in Orders(DOMAIN g) :
          LET plan == EvalNodes(alerts, g, ruleOrder, nodeOrder)
          IN IF plan = <<>>
             THEN /\ msgs' = <<>>
                  /\ delivered' = <<>>
                  /\ UNCHANGED <<emitted, ranging>>
             ELSE OpenRange(<<>>, <<>>, plan, added)

\* the dispatching task of the graph calls the callbacks one after the other
OnNodeAdded(n, metadata) ==
    /\ Alive
    /\ graphLock = "free"
    /\ ranging.pc = "no"
    /\ gcount < MaxGraphEvents
    /\ n \notin DOMAIN nodes
    /\ nodes' = (n :> metadata) @@ nodes
    /\ gcount' = gcount + 1
    /\ Notify(nodes', n)
    /\ UNCHANGED <<store, events, alerts, watcher, wlast, eventListeners,
                   registered, graphLock, resync, restOfAlert>>

OnNodeUpdated(n, metadata) ==
    /\ Alive
    /\ graphLock = "free"
    /\ ranging.pc = "no"
    /\ gcount < MaxGraphEvents
    /\ n \in DOMAIN nodes
    /\ nodes' = [nodes EXCEPT ![n] = metadata]
    /\ gcount' = gcount + 1
    /\ Notify(nodes', 0)
    /\ UNCHANGED <<store, events, alerts, watcher, wlast, eventListeners,
                   registered, graphLock, resync, restOfAlert>>

\* the graph notifies OnConnected, its dispatching task holding the write
\* lock of the graph or not; triggerResync: os.Hostname(), then
\* a.Graph.Lock(), GetNode, and the deferred a.Graph.Unlock()
OnConnected(held, hostnameErr) ==
    /\ Alive
    /\ graphLock = "free"
    /\ ranging.pc = "no"
    /\ gcount < MaxGraphEvents
    /\ gcount' = gcount + 1
    /\ IF hostnameErr THEN resync' = "failed" /\ UNCHANGED graphLock
       ELSE IF held THEN resync' = "locking" /\ graphLock' = "held"
       ELSE resync' = "locked" /\ UNCHANGED graphLock
    /\ UNCHANGED <<nodes, emitted, msgs, eventListeners, registered, delivered,
                   scopes, ranging, watchVars, restOfAlert>>

\* OnDisconnected: nothing
OnDisconnected ==
    /\ Alive
    /\ graphLock = "free"
    /\ ranging.pc = "no"
    /\ gcount < MaxGraphEvents
    /\ gcount' = gcount + 1
    /\ UNCHANGED <<nodes, emitted, msgs, eventListeners, registered, delivered,
                   scopes, graphLock, resync, ranging, watchVars, restOfAlert>>

\* EvalNodes, l.OnAlert(&msg) inside `for _, l := range a.eventListeners`:
\* one listener is called with the message of the open range. The range
\* over a map that nobody writes visits every entry once, in any order. When
\* the map was written during the range the access is unsynchronized, and
\* the range can come to any entry the map held meanwhile, also to one it
\* has visited
OnAlert(l) ==
    /\ Alive
    /\ ranging.pc = "yes"
    /\ LET row == delivered[Len(delivered)]
       IN /\ IF ranging.wrote
             THEN l \in ranging.seen /\ Len(row) < MaxRangeCalls
             ELSE l \in eventListeners /\ \A i \in DOMAIN row : row[i] # l
          /\ delivered' = [delivered EXCEPT ![Len(delivered)] = Append(row, l)]
    /\ UNCHANGED <<nodes, emitted, msgs, gcount, eventListeners, registered,
                   scopes, graphLock, resync, ranging, watchVars, restOfAlert>>

\* the range over a.eventListeners ends for one message, and EvalNodes goes
\* on to the range of its next message or returns; a range over a map that
\* was written meanwhile can end after any number of calls
EvalNodesRangeEnd ==
    /\ Alive
    /\ ranging.pc = "yes"
    /\ ranging.wrote
          \/ \A l \in eventListeners :
                \E i \in DOMAIN delivered[Len(delivered)] :
                    delivered[Len(delivered)][i] = l
    /\ IF ranging.todo = <<>>
       THEN /\ ranging' = NoRange
            /\ UNCHANGED <<msgs, emitted, delivered>>
       ELSE OpenRange(msgs, delivered, ranging.todo, ranging.added)
    /\ UNCHANGED <<nodes, gcount, eventListeners, registered, scopes, graphLock,
                   resync, watchVars, restOfAlert>>

\* the runtime finds the map written while it is iterated and stops the
\* process: "fatal error: concurrent map iteration and map write"
RangeFatal ==
    /\ ranging.pc = "yes"
    /\ ranging.wrote
    /\ ranging' = [NoRange EXCEPT !.pc = "fatal"]
    /\ UNCHANGED <<nodes, emitted, msgs, gcount, eventListeners, registered,
                   delivered, scopes, graphLock, resync, watchVars, restOfAlert>>

----------------------------------------------------------------------------
(***************************************************************************)
(* Initial states and specifications                                       *)
(***************************************************************************)
\* NewSFlowAgentAllocator
InitAlloc ==
    /\ cfg \in {[min |-> c[1], max |-> c[2]] : c \in CfgPairs}
    /\ allocated = <<>>
    /\ agent = <<>>
    /\ op = Idle
    /\ ret = [agent |-> 0, err |-> "none"]

\* an allocator configured with port_min above port_max
InitAllocEmptyRange ==
    /\ cfg \in {[min |-> c[1], max |-> c[2]] : c \in CfgEmptyRanges}
    /\ allocated = <<>>
    /\ agent = <<>>
    /\ op = Idle
    /\ ret = [agent |-> 0, err |-> "none"]

\* an allocator nobody calls
AllocIdle ==
    /\ cfg = [min |-> 0, max |-> 0]
    /\ allocated = <<>>
    /\ agent = <<>>
    /\ op = Idle
    /\ ret = [agent |-> 0, err |-> "none"]

\* what /alert holds when the engine is constructed: nothing, rule 1, rule 1
\* with a second value of the same UUID under another key, rule 1 with a
\* value that has no UUID
InitialStores ==
    {<<>>,
     etcdPath(1) :> Marshal([UUID |-> 1, Select |-> "Type", Test |-> TestHost,
                             Type |-> FIXED, Count |-> 0]),
     (etcdPath(1) :> Marshal([UUID |-> 1, Select |-> "Type", Test |-> TestHost,
                              Type |-> FIXED, Count |-> 0]))
     @@ (<<"alert", "notes">> :> Marshal([UUID |-> 1, Select |-> "Type",
                                          Test |-> TestBroken, Type |-> FIXED,
                                          Count |-> 0])),
     (etcdPath(1) :> Marshal([UUID |-> 1, Select |-> "Type", Test |-> TestHost,
                              Type |-> FIXED, Count |-> 0]))
     @@ (<<"alert", "notes">> :> NoUUIDValue)}

\* what /alert holds when the engine is constructed, for the evaluation of
\* tests that fail: the host rule alone, or with a second rule whose test does
\* not compile or fails at run time
NotifyStores ==
    {etcdPath(1) :> Marshal([UUID |-> 1, Select |-> "Type", Test |-> TestHost,
                             Type |-> FIXED, Count |-> 0])}
    \cup {(etcdPath(1) :> Marshal([UUID |-> 1, Select |-> "Type",
                                   Test |-> TestHost, Type |-> FIXED,
                                   Count |-> 0]))
          @@ (etcdPath(2) :> Marshal([UUID |-> 2, Select |-> r.Select,
                                      Test |-> r.Test, Type |-> FIXED,
                                      Count |-> 0])) :
          r \in {[Select |-> "Type", Test |-> TestBroken],
                 [Select |-> "MTU", Test |-> TestDiv]}}

\* NewAlertManager with one of these stores
InitNotify ==
    /\ store \in NotifyStores
    /\ \E listing \in Orders(DOMAIN store) :
          /\ alerts = LoadAll(store, listing).alerts
          /\ watcher = IF LoadAll(store, listing).panic
                       THEN "panicked" ELSE "running"
    /\ events = <<>>
    /\ wlast = NoEvent
    /\ nodes = <<>>
    /\ emitted = [id \in RuleIDs |-> 0]
    /\ msgs = <<>>
    /\ gcount = 0
    /\ eventListeners = {}
    /\ registered = <<>>
    /\ delivered = <<>>
    /\ scopes = <<>>
    /\ graphLock = "free"
    /\ resync = "idle"
    /\ ranging = NoRange

\* NewAlertManager: the map is loaded from the store, the watcher starts after
\* the index of the listing
InitAlert ==
    /\ store \in InitialStores
    /\ \E listing \in Orders(DOMAIN store) :
          /\ alerts = LoadAll(store, listing).alerts
          /\ watcher = IF LoadAll(store, listing).panic
                       THEN "panicked" ELSE "running"
    /\ events = <<>>
    /\ wlast = NoEvent
    /\ nodes = <<>>
    /\ emitted = [id \in RuleIDs |-> 0]
    /\ msgs = <<>>
    /\ gcount = 0
    /\ eventListeners = {}
    /\ registered = <<>>
    /\ delivered = <<>>
    /\ scopes = <<>>
    /\ graphLock = "free"
    /\ resync = "idle"
    /\ ranging = NoRange

\* an alert engine without rules, store traffic or graph notifications
AlertIdle ==
    /\ store = <<>>
    /\ alerts = <<>>
    /\ events = <<>>
    /\ watcher = "running"
    /\ wlast = NoEvent
    /\ nodes = <<>>
    /\ emitted = [id \in RuleIDs |-> 0]
    /\ msgs = <<>>
    /\ gcount = 0
    /\ eventListeners = {}
    /\ registered = <<>>
    /\ delivered = <<>>
    /\ scopes = <<>>
    /\ graphLock = "free"
    /\ resync = "idle"
    /\ ranging = NoRange

\* a switch without sFlow rows and a probe handler nobody calls
ProbeIdle ==
    /\ sflowRows = {}
    /\ bridgeSFlow = [b \in BridgeUUIDs |-> 0]
    /\ pret = [call |-> "none", err |-> "nil"]
    /\ regCalls = [c \in Callers |-> NoCall]

\* NewOvsSFlowProbesHandler of the cache-based handler: empty cache, empty
\* channel, no updater task yet
InitCache ==
    /\ cache = <<>>
    /\ cacheUpdaterChan = <<>>
    /\ caller = [pc |-> "idle", index |-> 0]
    /\ gpret = [index |-> 0, path |-> ""]
    /\ updater = UpdaterAt("none")
    /\ paths \in [Indexes -> ProbePaths]
    /\ handlerRunning = "true"
    /\ hstop = "idle"

\* a cache-based handler nobody calls
CacheIdle ==
    /\ cache = <<>>
    /\ cacheUpdaterChan = <<>>
    /\ caller = [pc |-> "idle", index |-> 0]
    /\ gpret = [index |-> 0, path |-> ""]
    /\ updater = UpdaterAt("none")
    /\ paths = [i \in Indexes |-> ""]
    /\ handlerRunning = "true"
    /\ hstop = "idle"

NextCache ==
    \/ \E i \in Indexes : GetProbePath(i)
    \/ GetProbePathResume
    \/ StartCacheUpdater
    \/ CacheUpdaterCheck
    \/ CacheUpdaterReceive
    \/ CacheUpdaterLookup
    \/ CacheUpdaterSet
    \/ HandlerStop
    \/ CacheUpdaterDone
    \/ HandlerStopReturn
    \/ \E i \in Indexes : CacheExpire(i)
    \/ \E i \in Indexes, p \in ProbePaths : GraphChange(i, p)

\* NewSFlowAgent and Start(): the task of start() is spawned and has not
\* run yet
InitLoop ==
    /\ flowTable = <<>>
    /\ clock = 1
    /\ expireTicker = 0
    /\ updatedTicker = 0
    /\ flusher = "idle"
    /\ stopper = "idle"
    /\ loopPc = "starting"
    /\ loopRunning = "nil"
    /\ expired = [i \in 1..MaxRecords |-> 0]
    /\ updated = {}
    /\ created = 0
    /\ inTable = {}

\* no agent loop is looked at
LoopIdle ==
    /\ flowTable = <<>>
    /\ clock = 1
    /\ expireTicker = 0
    /\ updatedTicker = 0
    /\ flusher = "idle"
    /\ stopper = "idle"
    /\ loopRunning = "nil"
    /\ loopPc = "none"
    /\ expired = [i \in 1..MaxRecords |-> 0]
    /\ updated = {}
    /\ created = 0
    /\ inTable = {}

\* the main loop of one agent, its tickers, and the callers of Flush and Stop
NextLoop ==
    \/ start
    \/ ClockTick
    \/ ExpireTickFires
    \/ UpdatedTickFires
    \/ FlushCall
    \/ StopCall
    \/ StopReturn
    \/ LoopCheck
    \/ ServeExpire
    \/ ServeUpdated
    \/ ServeFlush
    \/ TableOpReturn
    \/ FlushDone
    \/ ServeDefault
    \/ \E k \in FlowKeys \cup {0} : feedFlowTable(k)

NextAlloc ==
    \/ \E u \in BridgeUUIDs : Alloc(u)
    \/ \E u \in BridgeUUIDs : Release(u)
    \/ ReleaseAll
    \/ ReleaseVisit
    \/ ReleaseJoin
    \/ ReleaseReturn
    \/ \E a \in DOMAIN agent : AgentListen(a)
    \/ \E a \in DOMAIN agent : AgentRun(a)
    \/ \E a \in DOMAIN agent : AgentExit(a)
    \/ \E a \in DOMAIN agent : AgentClose(a)

\* the probe handler: RegisterProbe of one task and UnregisterProbe of
\* another in their steps, Stop (= ReleaseAll), and the switch. The tasks of the agents write neither the allocation map nor
\* the switch; here they have not been scheduled yet, so that Stop() never
\* has to wait for one.
NextProbe ==
    \/ \E n \in ProbeNodes : RegisterProbe(1, n)
    \/ RegisterSelect(1)
    \/ RegisterExec(1)
    \/ \E n \in ProbeNodes : UnregisterProbe(2, n)
    \/ UnregisterExec(2)
    \/ ReleaseAll
    \/ ReleaseVisit
    \/ ReleaseReturn
    \/ SwitchCollect

\* the KV store written by any client, and the watcher
NextWatch ==
    \/ \E a \in {"create", "set", "update"}, v \in Values :
          \E k \in KeysFor(v) : KVPut(a, k, v)
    \/ \E a \in {"delete", "expire"}, k \in Keys : KVRemove(a, k)
    \/ KVDeleteDir
    \/ WatcherStep
    \/ WatcherNextError

\* the watcher fed with an arbitrary stream of events
NextStream ==
    \/ \E e \in StreamEvents : StreamEvent(e)
    \/ WatcherStep
    \/ WatcherNextError

\* the KV store written through the API of the engine, the watcher, and the
\* graph
NextEval ==
    \/ \E r \in CreateInputs : Create(r)
    \/ \E id \in RuleIDs : Delete(UUIDString(id))
    \/ WatcherStep
    \/ WatcherNextError
    \/ \E n \in NodeIDs, t \in NodeTypes : OnNodeAdded(n, TypeOnly(t))
    \/ \E n \in NodeIDs, t \in NodeTypes : OnNodeUpdated(n, TypeOnly(t))
    \/ EvalNodesRangeEnd

\* the API of the engine and the watcher, with other clients of the store
\* removing what the engine wrote; the graph is quiet
NextApi ==
    \/ \E r \in CreateInputs : Create(r)
    \/ \E id \in RuleIDs : Delete(UUIDString(id))
    \/ WatcherStep
    \/ WatcherNextError
    \/ \E a \in {"delete", "expire"}, k \in Keys : KVRemove(a, k)
    \/ KVDeleteDir

\* listeners registered and removed by other tasks while the graph
\* notifies the engine and EvalNodes delivers
NextListen ==
    \/ \E l \in Listeners : OnAlert(l)
    \/ EvalNodesRangeEnd
    \/ RangeFatal
    \/ \E l \in Listeners : AddEventListener(l)
    \/ \E l \in Listeners : DelEventListener(l)
    \/ \E n \in NodeIDs, t \in NodeTypes : OnNodeAdded(n, TypeOnly(t))
    \/ \E n \in NodeIDs, t \in NodeTypes : OnNodeUpdated(n, TypeOnly(t))
    \/ \E held \in BOOLEAN, hostnameErr \in BOOLEAN : OnConnected(held, hostnameErr)
    \/ OnDisconnected

\* the graph notifying the engine of nodes with every kind of metadata; the
\* rule map stays as it was loaded
NextNotify ==
    \/ \E n \in NodeIDs, md \in Metadatas : OnNodeAdded(n, md)
    \/ \E n \in NodeIDs, md \in Metadatas : OnNodeUpdated(n, md)
    \/ EvalNodesRangeEnd

\* the handler called by one task through RegisterProbe and the exported
\* RegisterProbeOnBridge and by another through UnregisterProbe; the calls
\* and the switch run between the steps of a call
NextProbeCalls ==
    \/ \E u \in BridgeUUIDs : RegisterProbeOnBridge(1, u)
    \/ \E n \in ProbeNodes : RegisterProbe(1, n)
    \/ RegisterSelect(1)
    \/ RegisterExec(1)
    \/ \E n \in ProbeNodes : UnregisterProbe(2, n)
    \/ UnregisterExec(2)
    \/ SwitchCollect

\* RegisterProbe called by several tasks at the same time, their steps
\* interleaved
NextProbeRace ==
    \/ \E c \in Callers, n \in ProbeNodes : RegisterProbe(c, n)
    \/ \E c \in Callers : RegisterSelect(c)
    \/ \E c \in Callers : RegisterExec(c)
    \/ SwitchCollect

Init == InitAlloc /\ AlertIdle /\ ProbeIdle /\ CacheIdle /\ LoopIdle

Next == NextAlloc

Spec == Init /\ [][Next]_vars

InitEmptyRange ==
    InitAllocEmptyRange /\ AlertIdle /\ ProbeIdle /\ CacheIdle /\ LoopIdle

SpecEmptyRange == InitEmptyRange /\ [][NextAlloc]_vars

InitWatch == AllocIdle /\ InitAlert /\ ProbeIdle /\ CacheIdle /\ LoopIdle

SpecWatch == InitWatch /\ [][NextWatch]_vars

InitStream == AllocIdle /\ InitAlert /\ ProbeIdle /\ CacheIdle /\ LoopIdle

SpecStream == InitStream /\ [][NextStream]_vars

InitEval == AllocIdle /\ InitAlert /\ ProbeIdle /\ CacheIdle /\ LoopIdle

SpecEval == InitEval /\ [][NextEval]_vars

\* NewOvsSFlowProbesHandler: a fresh allocator; the switch has no sFlow row
InitProbe == InitAlloc /\ AlertIdle /\ ProbeIdle /\ CacheIdle /\ LoopIdle

SpecProbe == InitProbe /\ [][NextProbe]_vars

SpecProbeCalls == InitProbe /\ [][NextProbeCalls]_vars

SpecProbeRace == InitProbe /\ [][NextProbeRace]_vars

InitNotifySpec == AllocIdle /\ InitNotify /\ ProbeIdle /\ CacheIdle /\ LoopIdle

SpecNotify == InitNotifySpec /\ [][NextNotify]_vars

SpecListen == InitNotifySpec /\ [][NextListen]_vars


InitCacheSpec == AllocIdle /\ AlertIdle /\ ProbeIdle /\ InitCache /\ LoopIdle

SpecCache == InitCacheSpec /\ [][NextCache]_vars

InitLoopSpec == AllocIdle /\ AlertIdle /\ ProbeIdle /\ CacheIdle /\ InitLoop

SpecLoop == InitLoopSpec /\ [][NextLoop]_vars

InitApi == AllocIdle /\ InitAlert /\ ProbeIdle /\ CacheIdle /\ LoopIdle

SpecApi == InitApi /\ [][NextApi]_vars

----------------------------------------------------------------------------
(***************************************************************************)
(* Properties of the allocator and of the agent task                       *)
(***************************************************************************)
AgentOf(p) == agent[allocated[p]]

HasAgent(uuid) == \E p \in DOMAIN allocated : AgentOf(p).UUID = uuid

FreePorts == {p \in MinPort(cfg)..MaxPort(cfg) : p \notin DOMAIN allocated}

C2_StopJoinsTask ==
    \A a \in DOMAIN agent :
        agent[a].stopRet => agent[a].pc \in {"done", "bindfail"} /\ ~agent[a].conn

\* C3: when the bind of an agent fails, the Alloc that created and started the
\* agent does not report success.
C3_BindFailureReported ==
    \A a \in DOMAIN agent :
        agent[a].pc = "bindfail" => ~(ret.agent = a /\ ret.err = "nil")

\* C9: Alloc(uuid) for a uuid that has an agent returns that agent with
\* AgentAlreadyAllocated, creates no agent and leaves the map unchanged.
C9_AllocExisting ==
    [][\A u \in BridgeUUIDs :
          (Alloc(u) /\ HasAgent(u)) =>
              /\ ret'.err = "AgentAlreadyAllocated"
              /\ \E p \in DOMAIN allocated :
                    AgentOf(p).UUID = u /\ ret'.agent = allocated[p]
              /\ allocated' = allocated
              /\ agent' = agent]_vars

C9_Witness ==
    /\ ret.err = "AgentAlreadyAllocated"
    /\ \E p \in DOMAIN allocated : allocated[p] = ret.agent
    /\ Cardinality(DOMAIN allocated) = 2

\* C10: Alloc for a uuid without agent takes the lowest port of
\* [MinPort, MaxPort] that is not allocated.
C10_FirstFit ==
    [][\A u \in BridgeUUIDs :
          (Alloc(u) /\ ~HasAgent(u) /\ FreePorts # {}) =>
              LET low == CHOOSE p \in FreePorts : \A q \in FreePorts : p <= q
              IN /\ ret'.err = "nil"
                 /\ ret'.agent \notin DOMAIN agent
                 /\ ret'.agent \in DOMAIN agent'
                 /\ agent'[ret'.agent].Port = low
                 /\ agent'[ret'.agent].UUID = u
                 /\ DOMAIN allocated' = DOMAIN allocated \cup {low}
                 /\ allocated'[low] = ret'.agent
                 /\ \A p \in DOMAIN allocated : allocated'[p] = allocated[p]]_vars

\* the lowest port was released and is given out again while a higher one is
\* still allocated
C10_Witness ==
    /\ ret.err = "nil"
    /\ ret.agent = 3
    /\ MinPort(cfg) \in DOMAIN allocated
    /\ allocated[MinPort(cfg)] = 3
    /\ MinPort(cfg) + 1 \in DOMAIN allocated
    /\ allocated[MinPort(cfg) + 1] < 3

TaskEnded(ag) == ag.pc \in {"closing", "done", "bindfail"}

\* C12: Release(uuid) visits exactly the map entries of uuid; each entry it
\* removes belongs to an agent that is stopped by then, every other agent
\* stays allocated with its task untouched, and Release returns only when no
\* entry of uuid is left; for a uuid without agent nothing changes.
C12_ReleaseStopsOnlyUUID ==
    [][/\ \A u \in BridgeUUIDs :
             Release(u) => op'.todo = {p \in DOMAIN allocated : AgentOf(p).UUID = u}
       /\ (op.name = "Release" /\ (ReleaseVisit \/ ReleaseJoin)) =>
             \E p \in op.todo :
                /\ \A q \in DOMAIN allocated \ {p} :
                      /\ q \in DOMAIN allocated'
                      /\ allocated'[q] = allocated[q]
                      /\ agent'[allocated[q]] = agent[allocated[q]]
                /\ p \notin DOMAIN allocated' => TaskEnded(agent'[allocated[p]])
       /\ (op.name = "Release" /\ ReleaseReturn) => op.todo = {}]_vars

\* C13: ReleaseAll() visits every entry of the map; Stop() has returned for
\* each agent whose entry it deletes, and when it returns the map is empty
\* and Stop() has been called on every agent that was ever allocated.
C13_ReleaseAllEmpties ==
    [][/\ ReleaseAll => op'.todo = DOMAIN allocated
       /\ (op.name = "ReleaseAll" /\ (ReleaseVisit \/ ReleaseJoin)) =>
             /\ op'.todo = DOMAIN allocated' \/ op'.wait # 0
             /\ \A p \in DOMAIN allocated \ DOMAIN allocated' :
                   agent'[allocated[p]].stopRet
       /\ (op.name = "ReleaseAll" /\ ReleaseReturn) =>
             /\ allocated' = <<>>
             /\ \A a \in DOMAIN agent' : agent'[a].stopRet]_vars

\* the loop of ReleaseAll has deleted two entries and is about to return
C13_Witness ==
    /\ op.name = "ReleaseAll"
    /\ op.todo = {}
    /\ op.wait = 0
    /\ op.n = 2
    /\ allocated = <<>>
    /\ \A a \in DOMAIN agent : agent[a].stopRet

\* C15: a successful UnregisterProbe on an OVS bridge leaves the bridge
\* without sflow reference and the allocator without agent for the bridge
\* UUID.
C15_UnregisterReleases ==
    [][\A c \in Callers :
          (UnregisterExec(c) /\ pret'.err = "nil") =>
              /\ bridgeSFlow'[regCalls[c].bridge] = 0
              /\ \A p \in DOMAIN allocated' :
                    agent'[allocated'[p]].UUID # regCalls[c].bridge]_vars

\* C16: after a successful RegisterProbe on an OVS bridge, the sFlow row the
\* bridge references has as target the address:port of the agent allocated
\* for the bridge.
C16_TargetOfAgent ==
    [][\A c \in Callers :
          (RegisterExec(c) /\ pret'.err = "nil") =>
              \E r \in sflowRows', p \in DOMAIN allocated' :
                  /\ r.uuid = bridgeSFlow'[regCalls[c].bridge]
                  /\ agent'[allocated'[p]].UUID = regCalls[c].bridge
                  /\ r.target = GetTarget(agent'[allocated'[p]])]_vars

\* C17: a GetProbePath that misses the cache while the channel is full
\* returns the empty path at once: the request is dropped, the channel is
\* unchanged and the calling task is not blocked.
C17_FullChannelDrops ==
    [][\A i \in Indexes :
          (/\ GetProbePath(i)
           /\ FormatInt(i) \notin DOMAIN cache
           /\ Len(cacheUpdaterChan) = ChanCapacity) =>
              /\ caller'.pc = "idle"
              /\ gpret' = [index |-> i, path |-> ""]
              /\ cacheUpdaterChan' = cacheUpdaterChan]_vars

\* C14: when the task of a released agent has ended, every record that was
\* in its flow table has been delivered to the expire callback. (Stop() and
\* the end of start() deliver nothing themselves: this is decided by what
\* Table.UnregisterAll() does.)
C14_FlushedOnRelease ==
    loopPc = "ended" =>
        \A k \in DOMAIN flowTable : expired[flowTable[k].inst] > 0

\* C19: no record instance is passed to the expire callback twice, and an
\* instance passed to it is not in the table.
C19_ExpiredExactlyOnce ==
    \A i \in DOMAIN expired :
        /\ expired[i] <= 1
        /\ expired[i] = 1 => \A k \in DOMAIN flowTable : flowTable[k].inst # i

\* two records have expired at different times, and the key of one of them
\* is in the table again as a new record
C19_Witness ==
    /\ expired[1] = 1
    /\ expired[2] = 1
    /\ \E k \in DOMAIN flowTable : flowTable[k].inst = 3
    /\ expireTicker # 0
    /\ loopPc = "select"

\* C21: the operations on one flow table (Expire, Updated, ExpireNow and the
\* insertion of samples), and with them the expire and the updated callback,
\* all run on the single agent task and one at a time: no two of them are
\* ever in progress together.
C21_TableOpsOnAgentTask ==
    /\ \A x \in inTable : x.task = "agent"
    /\ Cardinality(inTable) <= 1
    /\ (inTable # {}) => (loopPc \in InTablePcs)

\* the updated callback is running while an expire tick and a flush signal
\* are both waiting to be served
C21_Witness ==
    /\ inTable = {[task |-> "agent", op |-> "Updated"]}
    /\ expireTicker # 0
    /\ flusher = "sending"
    /\ flowTable # << >>

\* C26: a GetProbePath that misses the cache returns the empty path with the
\* index enqueued for the updater; when the updater processes a request whose
\* lookup is not empty the path is cached, and a GetProbePath that finds the
\* entry returns it; an empty lookup result is never in the cache.
C26_MissThenCached ==
    [][/\ \A i \in Indexes :
            GetProbePath(i) =>
                IF FormatInt(i) \in DOMAIN cache
                THEN gpret' = [index |-> i, path |-> cache[FormatInt(i)]]
                ELSE caller'.pc = "idle" =>
                        /\ gpret' = [index |-> i, path |-> ""]
                        /\ cacheUpdaterChan' = Append(cacheUpdaterChan, i)
       /\ GetProbePathResume =>
            /\ gpret' = [index |-> caller.index, path |-> ""]
            /\ cacheUpdaterChan' = Append(cacheUpdaterChan, caller.index)
       /\ CacheUpdaterLookup =>
            updater'.path = lookupForProbePath(updater.index)
       /\ CacheUpdaterSet =>
            IF updater.path # ""
            THEN /\ FormatInt(updater.index) \in DOMAIN cache'
                 /\ cache'[FormatInt(updater.index)] = updater.path
            ELSE cache' = cache
       /\ \A k \in DOMAIN cache' : cache'[k] # ""]_vars

\* index 1 was resolved and a later GetProbePath(1) returned its path from
\* the cache, while index 2, whose lookup is empty, has no entry and no
\* request is waiting
C26_Witness ==
    /\ gpret = [index |-> 1, path |-> "host/br0"]
    /\ paths[2] = ""
    /\ FormatInt(2) \notin DOMAIN cache
    /\ cacheUpdaterChan = <<>>
    /\ FormatInt(1) \in DOMAIN cache

\* C27: RegisterProbe on a bridge without ownership path to a host returns
\* an error and leaves the allocator and the switch as they are; RegisterProbe
\* and UnregisterProbe on a node that is not an OVS bridge return no error
\* and leave them as they are too.
C27_NoPathNoBridge ==
    [][\A n \in ProbeNodes :
          /\ \A c \in Callers :
                (RegisterProbe(c, n) /\ isOvsBridge(n) /\ ~n.host) =>
                   /\ pret'.err \notin {"nil", "none"}
                   /\ regCalls'[c] = NoCall
                   /\ UNCHANGED <<allocated, agent, sflowRows, bridgeSFlow>>
          /\ \A c \in Callers :
                (RegisterProbe(c, n) /\ ~isOvsBridge(n)) =>
                   /\ pret'.err = "nil"
                   /\ regCalls'[c] = NoCall
                   /\ UNCHANGED <<allocated, agent, sflowRows, bridgeSFlow>>
          /\ \A c \in Callers :
                (UnregisterProbe(c, n) /\ ~isOvsBridge(n)) =>
                   /\ pret'.err = "nil"
                   /\ regCalls'[c] = NoCall
                   /\ UNCHANGED <<allocated, agent, sflowRows, bridgeSFlow>>]_vars

\* RegisterProbe has just failed for want of a path, on a handler that has
\* an agent and a referenced row for another bridge and none for bridge b1
C27_Witness ==
    /\ pret = [call |-> "RegisterProbe", err |-> "Failed to determine probePath"]
    /\ PortsOfUUID(allocated, agent, "b2") # {}
    /\ bridgeSFlow["b2"] # 0
    /\ PortsOfUUID(allocated, agent, "b1") = {}
    /\ \A r \in sflowRows : r.id # probeID("b1")

\* C28: the switch holds at most one sFlow row for a probe-id, whatever the
\* sequence and interleaving of RegisterProbe calls.
C28_OneRowPerProbeID ==
    \A r1, r2 \in sflowRows : r1.id = r2.id => r1.uuid = r2.uuid

\* C29: every Flush() returns: it is never left at its send on the flush
\* channel with an agent task that has left its loop or never entered it and
\* will not receive.
C29_FlushReturns == ~(flusher = "sending" /\ loopPc \in {"ended", "failed"})

\* C30: Stop() of the cache-based handler always returns: it is never left
\* at its send on the done channel with an updater that has ended and will
\* not receive.
C30_StopReturns == ~(hstop = "sending" /\ updater.pc = "ended")

\* C32: when a RegisterProbe returns an error of the switch (select, insert
\* or update failed), the agent that its Alloc created is no longer
\* allocated: its port is not in the allocation map.
C32_FailedRegisterKeepsNoAgent ==
    [][\A c \in Callers :
          ((RegisterSelect(c) \/ RegisterExec(c)) /\ pret'.err = "ovsdb"
           /\ regCalls'[c] = NoCall /\ regCalls[c].fresh # 0) =>
              regCalls[c].fresh \notin DOMAIN allocated']_vars

\* C33: with port_min above port_max after the defaults the range is empty:
\* Alloc for a uuid without agent allocates no port and returns the
\* port-exhausted error.
C33_EmptyRangeExhausted ==
    [][\A u \in BridgeUUIDs :
          (/\ Alloc(u)
           /\ MinPort(cfg) > MaxPort(cfg)
           /\ PortsOfUUID(allocated, agent, u) = {}) =>
              /\ allocated' = allocated
              /\ ret'.err = "sflow port exhausted"]_vars

\* C20: the loop serves the expire tick before the updated tick, the updated
\* tick before the flush signal, and reads a datagram only when none of them
\* is ready.
C20_PriorityOrder ==
    [][/\ ServeUpdated => expireTicker = 0
       /\ ServeFlush => (expireTicker = 0 /\ updatedTicker = 0)
       /\ ServeDefault =>
             (expireTicker = 0 /\ updatedTicker = 0 /\ flusher # "sending")]_vars

----------------------------------------------------------------------------
(***************************************************************************)
(* Properties of the alert engine                                          *)
(***************************************************************************)
UUIDStrings == {UUIDString(id) : id \in RuleIDs}

IDOf(s) == CHOOSE id \in RuleIDs : UUIDString(id) = s

PutActions == {"create", "set", "update"}

RemoveActions == {"delete", "expire"}

\* the value is the serialized form of a complete rule
CompleteRule(v) == v.kind = "json" /\ v.UUID \in UUIDStrings

RuleOf(v) == [UUID |-> IDOf(v.UUID), Select |-> v.Select, Test |-> v.Test,
              Type |-> v.Type, Count |-> v.Count]

\* C4: the stored fire-count of a rule never decreases and equals the number
\* of AlertMessages emitted for the rule.
C4_FireCountEqualsEmitted ==
    [][\A r \in RuleIDs :
          /\ r \in DOMAIN alerts' => alerts'[r].Count = emitted'[r]
          /\ (r \in DOMAIN alerts /\ r \in DOMAIN alerts')
                => alerts'[r].Count >= alerts[r].Count]_vars

\* C5: the addition of a node that satisfies the test of a stored rule emits
\* exactly one AlertMessage for the rule, whose Count is the number of
\* messages emitted for the rule so far.
C5_OneMessagePerAddition ==
    [][\A n \in NodeIDs :
          (ranging.pc = "yes" /\ ranging.added = n /\ ranging'.pc = "no") =>
              \A r \in DOMAIN alerts :
                  (/\ alerts[r].Select \in DOMAIN nodes[n]
                   /\ EvalTest(alerts[r].Test, nodes[n]) = "true")
                  => /\ CountFor(msgs', r) = 1
                     /\ \A i \in DOMAIN msgs' :
                           msgs'[i].UUID = r => msgs'[i].Count = emitted'[r]]_vars

\* the rules whose serialized form the store holds
StoreRules == {RuleOf(store[k]) : k \in {x \in DOMAIN store : CompleteRule(store[x])}}

\* C6: once the watcher has consumed every event, the in-memory rule map
\* holds exactly the rule values present in the store.
C6_Reconciled ==
    (events = <<>> /\ watcher = "running")
        => {alerts[r] : r \in DOMAIN alerts} = StoreRules

\* C7: a create/set/update event upserts the deserialized rule, a
\* delete/expire event removes the rule named by the last segment of the key;
\* Index() shows the rule after the former and not after the latter.
C7_WatcherUpsertsAndRemoves ==
    [][WatcherStep =>
          LET e == Head(events) IN
          /\ (~e.dir /\ e.action \in PutActions /\ CompleteRule(e.value)) =>
                LET id == IDOf(e.value.UUID) IN
                /\ DOMAIN alerts' = DOMAIN alerts \cup {id}
                /\ alerts'[id] = RuleOf(e.value)
                /\ \A r \in DOMAIN alerts \ {id} : alerts'[r] = alerts[r]
                /\ e.value.UUID \in DOMAIN Index(alerts')
                /\ Index(alerts')[e.value.UUID] = RuleOf(e.value)
          /\ (~e.dir /\ e.action \in RemoveActions /\ PathBase(e.key) \in UUIDStrings) =>
                LET id == IDOf(PathBase(e.key)) IN
                /\ DOMAIN alerts' = DOMAIN alerts \ {id}
                /\ \A r \in DOMAIN alerts' : alerts'[r] = alerts[r]
                /\ PathBase(e.key) \notin DOMAIN Index(alerts')]_vars

\* the watcher has removed rule 1 on a delete or expire event, and the map
\* holds rule 2, which only an upsert can have put there
C7_Witness ==
    /\ wlast.action \in RemoveActions
    /\ wlast.key = etcdPath(1)
    /\ 1 \notin DOMAIN alerts
    /\ 2 \in DOMAIN alerts
    /\ UUIDString(2) \in DOMAIN Index(alerts)
    /\ watcher = "running"

\* an event the watcher cannot turn into a rule or a rule id
Malformed(e) ==
    /\ ~e.dir
    /\ \/ e.action \in PutActions /\ ~CompleteRule(e.value)
       \/ e.action \in RemoveActions /\ PathBase(e.key) \notin UUIDStrings

\* C8: a malformed event is skipped: the map is unchanged and the watcher
\* goes on.
C8_MalformedSkipped ==
    [][(WatcherStep /\ Malformed(Head(events)))
          => (alerts' = alerts /\ watcher' = "running")]_vars

\* C18: Create and Delete write to the KV store only; the rule map changes
\* only in a step of the watcher. Create stores the rule under /alert/<uuid>
\* with a uuid that occurs nowhere yet, Type FIXED and Count 0.
C18_CreateDeleteOnlyStore ==
    [][/\ \A r \in CreateInputs :
             Create(r) =>
                /\ alerts' = alerts
                /\ \E id \in RuleIDs :
                      /\ id \notin DOMAIN alerts
                      /\ etcdPath(id) \notin DOMAIN store
                      /\ \A k \in DOMAIN store : store[k].UUID # UUIDString(id)
                      /\ store' = (etcdPath(id) :>
                                     [kind |-> "json", UUID |-> UUIDString(id),
                                      Select |-> r.Select, Test |-> r.Test,
                                      Type |-> FIXED, Count |-> 0]) @@ store
       /\ \A id \in RuleIDs :
             Delete(UUIDString(id)) =>
                /\ alerts' = alerts
                /\ DOMAIN store' = DOMAIN store \ {etcdPath(id)}
                /\ \A k \in DOMAIN store' : store'[k] = store[k]
       /\ alerts' # alerts => WatcherStep]_vars

\* Create has stored rule 2 and the watcher has not consumed its event yet:
\* the store holds the rule, the map does not
C18_Witness ==
    /\ events # <<>>
    /\ Head(events).action = "set"
    /\ Head(events).key = etcdPath(2)
    /\ etcdPath(2) \in DOMAIN store
    /\ store[etcdPath(2)].Type = FIXED
    /\ store[etcdPath(2)].Count = 0
    /\ 2 \notin DOMAIN alerts
    /\ 1 \in DOMAIN alerts

\* C22: every message of EvalNodes goes to every registered listener, the
\* listeners being called in the order of their registration (judged at the
\* end of each range over the listeners that no other task wrote during
\* the range).
C22_RegistrationOrder ==
    [][(/\ ranging.pc = "yes"
        /\ ~ranging.wrote
        /\ ranging'.pc = "no" \/ Len(msgs') > Len(msgs)) =>
          delivered[Len(delivered)] = registered]_vars

\* C23: no graph notification callback of the engine takes the write lock of
\* the graph while the notification is being dispatched.
C23_NoWriteLockInCallback == resync \notin {"locking", "locked"}

\* the scalar types of metadata values the expression language supports
SupportedTypes ==
    {"bool", "int", "int8", "int16", "int32", "int64", "uint", "uint8",
     "uint16", "uint32", "uint64", "float32", "float64", "string"}

\* C24: in the world built for a candidate node every metadata value of a
\* supported scalar type is bound under its key with its value, and a value
\* of another type leaves the rules that do not name it evaluable.
C24_SupportedTypesBound ==
    \A n \in DOMAIN scopes :
        /\ \A k \in DOMAIN nodes[n] :
              nodes[n][k].type \in SupportedTypes
                  => /\ k \in DOMAIN scopes[n]
                     /\ scopes[n][k].type # "nil"
                     /\ scopes[n][k].val = nodes[n][k].val
        /\ \A r \in DOMAIN alerts :
              (alerts[r].Test = TestHost /\ "Type" \in DOMAIN nodes[n])
                  => EvalTest(alerts[r].Test, nodes[n]) # "error"

\* C25: a test that fails on a candidate node gives no message for that rule
\* and node, the rule stays in the map, and every other pair of a rule and a
\* candidate node whose test is true still gets its message (judged at the
\* return of each evaluation, on the nodes as they are).
C25_ErrorSkipsOnlyThePair ==
    [][(ranging'.pc = "no" /\ (ranging.pc = "yes" \/ gcount' > gcount)) =>
         /\ alerts' = alerts
         /\ \A r \in DOMAIN alerts : \A n \in DOMAIN nodes' :
               LET cand == alerts[r].Select \in DOMAIN nodes'[n]
                   res == EvalTest(alerts[r].Test, nodes'[n])
                   sent == {i \in DOMAIN msgs' : /\ msgs'[i].UUID = r
                                                 /\ msgs'[i].ReasonData = n}
               IN /\ (cand /\ res = "error") => sent = {}
                  /\ (cand /\ res = "true") => Cardinality(sent) = 1]_vars

\* the test of rule 2 failed on one node and rule 1 and rule 2 both fired on
\* another node in the same evaluation
C25_Witness ==
    /\ 2 \in DOMAIN alerts
    /\ \E n \in DOMAIN nodes :
          /\ alerts[2].Select \in DOMAIN nodes[n]
          /\ EvalTest(alerts[2].Test, nodes[n]) = "error"
          /\ \A i \in DOMAIN msgs : ~(msgs[i].UUID = 2 /\ msgs[i].ReasonData = n)
          /\ \E i \in DOMAIN msgs : msgs[i].UUID = 1 /\ msgs[i].ReasonData = n
    /\ \E i \in DOMAIN msgs : msgs[i].UUID = 2

\* C31: the listener set is not modified while EvalNodes is ranging over it.
C31_ListenersStableWhileRanging ==
    [][ranging.pc = "yes" =>
          ~\E l \in Listeners : AddEventListener(l) \/ DelEventListener(l)]_vars
============================================================================
